---- MODULE Spec2Model ----
(***************************************************************************)
(* Model of the photo application's orchestration layer:                   *)
(*   - the batch metadata updater  (src/app/api/cloudinary-batch/route.ts) *)
(*   - the cache + retry facade    (src/lib/photoStorage.ts)               *)
(*   - the rate limiters           (src/lib/rate-limiter.ts)               *)
(*   - the upload component        (CloudinaryUploader)                    *)
(*   - the webhook receiver        (api/webhooks/cloudinary route)         *)
(* Every subsystem has its own specification over the module's variables;  *)
(* the variables of the other subsystems stay unchanged under it.          *)
(***************************************************************************)
EXTENDS Integers, Sequences, FiniteSets, TLC

VARIABLES
    \* ---- batch metadata updater: one POST request ----
    postPc,        \* position of the POST handler
    request,       \* the request being handled: limiter verdict, whether its JSON parses, its body
    i,             \* loop index of the sub-batch loop
    batch,         \* 1-based positions of the operations of the current sub-batch
    opState,       \* per operation position: "idle" | "inflight" | "ok" | "error" | "none" | "dry"
    results,       \* results: BatchOperationResult[]
    response,      \* what NextResponse.json was called with
    remoteCalls,   \* positions for which cloudinary.api.update was called, in call order
    batchLog,      \* the sub-batches issued so far, each a sequence of positions
    waitLog,       \* for each inter-batch setTimeout: <<sub-batch number, ms>>
    \* ---- PhotoStorageService: one service instance, one public call at a time ----
    config,        \* this.config (after the defaults are merged in)
    cache,         \* this.cache: cache key -> CacheEntry
    now,           \* Date.now()
    ticks,         \* how often the clock has been advanced from outside
    calls,         \* fetchPhotosByFolder calls started so far
    writes,        \* updatePhotoMetadata / deletePhoto calls started so far
    svcPc,         \* "idle" | "attempt" | "backoff" | "returned" | "thrown"
    call,          \* the arguments of the current call and its cache key
    attempt,       \* withRetry: the loop variable
    invocations,   \* how often operation() has been invoked in the current call
    lastError,     \* withRetry: lastError
    outcomes,      \* outcome of every invocation of operation() in the current call
    backoffs,      \* backoff timers started in the current call
    lastDelay,     \* delay of the latest backoff timer
    callResult,    \* what the current call returned or threw
    stored,        \* fetch arguments -> what the last setCache for them stored
    \* ---- rateLimit(config): one limiter instance of a route module ----
    limitOf,       \* purpose -> the limit the route passes to check for it
    tokens,        \* the limiter's Map: key -> timestamps
    clock,         \* Date.now() on the server
    advances,      \* how often the server clock has been advanced
    pending,       \* <<identifier, header>> -> requests that have arrived and not yet run
    checks,        \* requests handled so far
    checkLog,      \* key -> its completed checks in order: time, verdict, response status
    \* ---- checkRateLimit: the module's rate-limiter-flexible instance ----
    rlEnv,         \* the validated environment: store selection and points
    rateLimiter,   \* the module variable: "unset" | "memory" | "redis"
    rlStore,       \* the limiter's counters: identifier -> consumed points and expiry
    rlLog,         \* identifier -> what checkRateLimit returned for it, in order
    \* ---- CloudinaryUploader: one mounted component ----
    uploadFiles,   \* the task list
    uploadedPhotos,\* the photos of the uploads that succeeded
    sessionStore,  \* sessionStorage item photoStream_uploadedPhotos
    isUploading,   \* the component's isUploading state
    overallProgress, \* the component's overallProgress state, in whole percent
    error,         \* the component's error state
    offered,       \* files offered to the dropzone so far
    runs,          \* the processUploads calls that wait for a remote upload
    retryTimers,   \* the 100 ms timers of retryUpload that have not fired yet
    intervals,     \* task id -> progress intervals that are set and not cleared
    invoked,       \* presses of "Upload" and "Retry" so far
    dropped,       \* the files offered to the dropzone so far, by number
    retries,       \* task id -> retryUpload calls that put the task back to pending
    \* ---- webhook route: one POST request at a time ----
    webhookSecret, \* CLOUDINARY_WEBHOOK_SECRET ("": not configured)
    hookPc,        \* "idle" | "handling" | "responded"
    hookReq,       \* the request being handled
    hookParsed,    \* JSON.parse(body) was called for it
    hookHandled,   \* handleWebhookEvent was called for it
    hookStatus,    \* status of the response (0: none yet)
    \* ---- uploadBatch of lib/cloudinary: one call at a time ----
    ubPc,          \* "idle" | "uploading" | "returned" | "thrown"
    ubOptions,     \* the options of the call
    ubIndex,       \* the loop variable i
    ubSuccessful,  \* the array successful
    ubFailed,      \* the array failed
    ubResults,     \* the array results
    ubReturn       \* the BatchUploadResult the call returned

batchVars == <<postPc, request, i, batch, opState, results, response, remoteCalls,
               batchLog, waitLog>>

storageVars == <<config, cache, now, ticks, calls, writes, svcPc, call, attempt, invocations,
                 lastError,
                 outcomes, backoffs, lastDelay, callResult, stored>>

limiterVars == <<limitOf, tokens, clock, advances, pending, checks, checkLog>>

uploadLimiterVars == <<rlEnv, rateLimiter, rlStore, rlLog>>

uploaderVars == <<uploadFiles, uploadedPhotos, sessionStore, isUploading, overallProgress,
                  error, offered, runs, retryTimers, intervals, invoked,
                  dropped, retries>>

webhookVars == <<webhookSecret, hookPc, hookReq, hookParsed, hookHandled, hookStatus>>

uploadBatchVars == <<ubPc, ubOptions, ubIndex, ubSuccessful, ubFailed, ubResults, ubReturn>>

vars == <<batchVars, storageVars, limiterVars, uploadLimiterVars, uploaderVars, webhookVars,
          uploadBatchVars>>

\* What a step of one subsystem leaves alone.
nonBatchVars == <<storageVars, limiterVars, uploadLimiterVars, uploaderVars, webhookVars,
                  uploadBatchVars>>
nonStorageVars == <<batchVars, limiterVars, uploadLimiterVars, uploaderVars, webhookVars,
                    uploadBatchVars>>
nonLimiterVars == <<batchVars, storageVars, uploadLimiterVars, uploaderVars, webhookVars,
                    uploadBatchVars>>
nonUploadLimiterVars == <<batchVars, storageVars, limitOf, tokens, pending, checkLog,
                          uploaderVars, webhookVars, uploadBatchVars>>
nonUploaderVars == <<batchVars, storageVars, limiterVars, uploadLimiterVars, webhookVars,
                     uploadBatchVars>>
nonWebhookVars == <<batchVars, storageVars, limiterVars, uploadLimiterVars, uploaderVars,
                    uploadBatchVars>>
nonUploadBatchVars == <<batchVars, storageVars, limiterVars, uploadLimiterVars, uploaderVars,
                        webhookVars>>

\* ---------------------------------------------------------------- bounds
MaxBatchFiles == 2   \* longest options.files of an uploadBatch call
MaxOps == 5          \* longest operations array that is enumerated entry by entry
MaxBatchSize == 3    \* largest explicit options.batchSize
NegCap == 2          \* the loop index saturates at -NegCap (only a negative batchSize gets there)
MaxCalls == 2        \* fetchPhotosByFolder calls made on the storage service
MaxWrites == 1       \* updatePhotoMetadata / deletePhoto calls made on the storage service
MaxTicks == 1        \* clock advances from outside the service
MaxRetriesCfg == 2   \* largest explicitly configured maxRetries (the default is also covered)
MaxChecks == 3       \* requests sent to the rate-limited routes
MaxAdvances == 2     \* advances of the server clock
MaxFiles == 2        \* files offered to the dropzone
MaxClicks == 4       \* presses of "Upload" and "Retry"

\* ------------------------------------------------------ program constants
MaxOperations == 100       \* route.ts:87
DefaultBatchSize == 10     \* route.ts:111
DefaultDelay == 100        \* route.ts:112
CacheTTL == 300000         \* photoStorage.ts:66
DefaultMaxRetries == 3     \* photoStorage.ts:67
RetryDelay == 1000         \* photoStorage.ts:68
DefaultPageSize == 50      \* photoStorage.ts:69
JitterMax == 1000          \* photoStorage.ts:147
Interval == 60000          \* route.ts:14
WindowMs == 60000          \* rate-limiter.ts:152
BlockDuration == 60        \* rate-limiter.ts:14
DefaultRetryAfter == 60    \* rate-limiter.ts:63
MAX_FILE_SIZE == 10485760  \* part_007:23
MAX_RETRIES == 3           \* part_007:24
ProgressStep == 29         \* part_007:113, Math.random() * 30 at its upper end
ProgressCap == 90          \* part_007:113
DigestBytes == 32          \* part_005:167, a sha256 digest

\* ---------------------------------------------------------------- helpers
Max(a, b) == IF a >= b THEN a ELSE b
Min(a, b) == IF a <= b THEN a ELSE b

\* An optional JSON field is <<>> (undefined) or <<v>>.
Opt(S) == {<<>>} \cup {<<v>> : v \in S}

\* Destructuring default: `x = d` applies only when the field is undefined.
OrDefault(opt, d) == IF opt = <<>> THEN d ELSE opt[1]

\* Array.prototype.slice(start, end) on an array of length len: the 1-based
\* positions of the elements it returns.  Negative arguments count from the end.
RelIndex(len, k) == IF k < 0 THEN Max(len + k, 0) ELSE Min(k, len)

\* Variant: the end position is taken inclusive.
Slice_EndInclusive(len, start, end) ==
    LET s == RelIndex(len, start)
        e == RelIndex(len, end + 1)
    IN  [j \in 1..Max(e - s, 0) |-> s + j]

Slice(len, start, end) ==
    LET s == RelIndex(len, start)
        e == RelIndex(len, end)
    IN  [j \in 1..Max(e - s, 0) |-> s + j]

\* Math.ceil(n / d) for d >= 1 (the only case in which the value reaches a response).
CeilDiv(n, d) == IF d >= 1 THEN (n + d - 1) \div d ELSE 0

Range(s) == {s[k] : k \in DOMAIN s}

\* ------------------------------------------------------------- the requests
PublicIds == {"", "a"}          \* "" stands for a missing / empty publicId

OpsOfLen(n) == [1..n -> PublicIds]

\* What the handler can receive as body.operations: not an array at all,
\* every array of up to MaxOps entries, and one array over the cap.
OperationsInputs ==
    {[isArray |-> FALSE, items |-> <<>>]}
    \cup {[isArray |-> TRUE, items |-> s] : s \in UNION {OpsOfLen(n) : n \in 0..MaxOps}}
    \cup {[isArray |-> TRUE, items |-> [k \in 1..(MaxOperations + 1) |-> "a"]]}

BatchSizes == Opt(-1..MaxBatchSize)
Delays == Opt({0, 1})

Bodies ==
    [operations : OperationsInputs,
     dryRun : BOOLEAN,
     batchSize : BatchSizes,
     delayBetweenBatches : Delays]

NoBody == [operations |-> [isArray |-> FALSE, items |-> <<>>], dryRun |-> FALSE,
           batchSize |-> <<>>, delayBetweenBatches |-> <<>>]

\* limited: limiter.check threw;  parses: request.json() did not throw
Requests == [limited : BOOLEAN, parses : BOOLEAN, body : Bodies]

NoRequest == [limited |-> FALSE, parses |-> FALSE, body |-> NoBody]

NoResponse == [status |-> 0, error |-> "", successful |-> <<>>, failed |-> <<>>,
               total |-> 0, success |-> FALSE, batchCount |-> 0]

ErrorResponse(st, msg) == [NoResponse EXCEPT !.status = st, !.error = msg]

body == request.body
operations == body.operations.items
dryRun == body.dryRun
batchSize == OrDefault(body.batchSize, DefaultBatchSize)
delayBetweenBatches == OrDefault(body.delayBetweenBatches, DefaultDelay)

\* ------------------------------------------------- POST /api/cloudinary-batch
\* Variant: the per-operation loop looks at the first entry only.
ValidationError_FirstEntryOnly(b) ==
    IF ~b.operations.isArray \/ Len(b.operations.items) = 0
    THEN "operations array is required and must not be empty"
    ELSE IF Len(b.operations.items) > MaxOperations
    THEN "Maximum 100 operations allowed per batch request"
    ELSE IF b.operations.items[1] = ""
    THEN "publicId is required for each operation"
    ELSE ""

\* The request validation of the handler: "" when the body is accepted,
\* otherwise the text of the 400 response.
ValidationError(b) ==
    IF ~b.operations.isArray \/ Len(b.operations.items) = 0
    THEN "operations array is required and must not be empty"
    ELSE IF Len(b.operations.items) > MaxOperations
    THEN "Maximum 100 operations allowed per batch request"
    ELSE IF \E k \in DOMAIN b.operations.items : b.operations.items[k] = ""
    THEN "publicId is required for each operation"
    ELSE ""

\* The handler up to its first suspension inside the loop: rate limit, parse,
\* validate, destructure the options, set up results and the loop index.
Receive(r) ==
    /\ postPc = "idle"
    /\ request' = r
    /\ IF r.limited
       THEN /\ response' = ErrorResponse(429, "Rate limit exceeded. Please try again later.")
            /\ postPc' = "done"
       ELSE IF ~r.parses
       THEN /\ response' = ErrorResponse(500, "Failed to process batch operations")
            /\ postPc' = "done"
       ELSE IF ValidationError(r.body) # ""
       THEN /\ response' = ErrorResponse(400, ValidationError(r.body))
            /\ postPc' = "done"
       ELSE /\ response' = NoResponse
            /\ postPc' = "loop"
    /\ i' = 0
    /\ results' = <<>>
    /\ batch' = <<>>
    /\ opState' = [k \in DOMAIN r.body.operations.items |-> "idle"]
    /\ UNCHANGED <<remoteCalls, batchLog, waitLog>>
    /\ UNCHANGED nonBatchVars

\* Variant: the dryRun branch is missing; every operation is sent to the remote API.
StartBatch_IgnoresDryRun ==
    /\ postPc = "loop"
    /\ i < Len(operations)
    /\ LET b == Slice(Len(operations), i, i + batchSize)
       IN  /\ batch' = b
           /\ batchLog' = IF b = <<>> THEN batchLog ELSE Append(batchLog, b)
           /\ opState' = [k \in DOMAIN opState |->
                            IF k \in Range(b) THEN "inflight" ELSE opState[k]]
           /\ remoteCalls' = remoteCalls \o b
    /\ postPc' = "await"
    /\ UNCHANGED <<request, i, results, response, waitLog>>
    /\ UNCHANGED nonBatchVars

\* One loop iteration up to `await Promise.allSettled`: slice the sub-batch and run
\* every map callback to its first await.  Outside dry-run that is the call of
\* cloudinary.api.update for every operation of the sub-batch; in dry-run the
\* callbacks complete at once.  (An empty slice is not entered in batchLog.)
StartBatch ==
    /\ postPc = "loop"
    /\ i < Len(operations)
    /\ LET b == Slice(Len(operations), i, i + batchSize)
       IN  /\ batch' = b
           /\ batchLog' = IF b = <<>> THEN batchLog ELSE Append(batchLog, b)
           /\ IF dryRun
              THEN /\ opState' = [k \in DOMAIN opState |->
                                    IF k \in Range(b) THEN "dry" ELSE opState[k]]
                   /\ UNCHANGED remoteCalls
              ELSE /\ opState' = [k \in DOMAIN opState |->
                                    IF k \in Range(b) THEN "inflight" ELSE opState[k]]
                   /\ remoteCalls' = remoteCalls \o b
    /\ postPc' = "await"
    /\ UNCHANGED <<request, i, results, response, waitLog>>
    /\ UNCHANGED nonBatchVars

\* The callback of cloudinary.api.update for position k: "ok" (a result),
\* "error" (an error), "none" (neither).
RemoteOutcomes == {"ok", "error", "none"}

SettleRemote(k, outcome) ==
    /\ postPc = "await"
    /\ k \in DOMAIN opState
    /\ opState[k] = "inflight"
    /\ opState' = [opState EXCEPT ![k] = outcome]
    /\ UNCHANGED <<postPc, request, i, batch, results, response, remoteCalls,
                   batchLog, waitLog>>
    /\ UNCHANGED nonBatchVars

\* The BatchOperationResult the map callback of position k resolves with.
ResultOf(k) ==
    [idx |-> k,
     publicId |-> operations[k],
     success |-> opState[k] \in {"ok", "dry"},
     detail |-> CASE opState[k] = "dry" -> "dry_run"
                  [] opState[k] = "ok" -> "update"
                  [] opState[k] = "error" -> "Cloudinary update failed"
                  [] OTHER -> "No result returned from Cloudinary"]

\* i += batchSize.  Below zero every index gives the same empty slice, so the
\* index saturates at -NegCap.
NextIndex == Max(i + batchSize, 0 - NegCap)

\* Variant: the delay condition tests i instead of i + batchSize, so the handler
\* also waits after the last sub-batch.
Collect_DelayAfterLast ==
    /\ postPc = "await"
    /\ \A k \in Range(batch) : opState[k] # "inflight"
    /\ results' = results \o [j \in DOMAIN batch |-> ResultOf(batch[j])]
    /\ IF i < Len(operations) /\ delayBetweenBatches > 0
       THEN /\ postPc' = "delay"
            /\ waitLog' = IF batch = <<>> THEN waitLog
                          ELSE Append(waitLog, <<Len(batchLog), delayBetweenBatches>>)
            /\ UNCHANGED i
       ELSE /\ postPc' = "loop"
            /\ i' = NextIndex
            /\ UNCHANGED waitLog
    /\ UNCHANGED <<request, batch, opState, response, remoteCalls, batchLog>>
    /\ UNCHANGED nonBatchVars

\* Variant: the handler goes on as soon as one callback of the sub-batch has
\* settled (Promise.race in place of Promise.allSettled).
Collect_OnFirstSettled ==
    /\ postPc = "await"
    /\ \/ batch = <<>>
       \/ \E k \in Range(batch) : opState[k] # "inflight"
    /\ results' = results \o [j \in DOMAIN batch |-> ResultOf(batch[j])]
    /\ IF i + batchSize < Len(operations) /\ delayBetweenBatches > 0
       THEN /\ postPc' = "delay"
            /\ waitLog' = IF batch = <<>> THEN waitLog
                          ELSE Append(waitLog, <<Len(batchLog), delayBetweenBatches>>)
            /\ UNCHANGED i
       ELSE /\ postPc' = "loop"
            /\ i' = NextIndex
            /\ UNCHANGED waitLog
    /\ UNCHANGED <<request, batch, opState, response, remoteCalls, batchLog>>
    /\ UNCHANGED nonBatchVars

\* Promise.allSettled resolves once every callback of the sub-batch has settled;
\* the results are pushed in sub-batch order; then the inter-batch delay is
\* started or the loop goes on.
Collect ==
    /\ postPc = "await"
    /\ \A k \in Range(batch) : opState[k] # "inflight"
    /\ results' = results \o [j \in DOMAIN batch |-> ResultOf(batch[j])]
    /\ IF i + batchSize < Len(operations) /\ delayBetweenBatches > 0
       THEN /\ postPc' = "delay"
            /\ waitLog' = IF batch = <<>> THEN waitLog
                          ELSE Append(waitLog, <<Len(batchLog), delayBetweenBatches>>)
            /\ UNCHANGED i
       ELSE /\ postPc' = "loop"
            /\ i' = NextIndex
            /\ UNCHANGED waitLog
    /\ UNCHANGED <<request, batch, opState, response, remoteCalls, batchLog>>
    /\ UNCHANGED nonBatchVars

\* The inter-batch setTimeout fires.
DelayElapsed ==
    /\ postPc = "delay"
    /\ postPc' = "loop"
    /\ i' = NextIndex
    /\ UNCHANGED <<request, batch, opState, results, response, remoteCalls,
                   batchLog, waitLog>>
    /\ UNCHANGED nonBatchVars

\* Variant: a failed operation turns the whole response into a 500
\* (the per-operation error escapes to the outer catch).
Respond_FailsOnFailure ==
    /\ postPc = "loop"
    /\ ~(i < Len(operations))
    /\ LET successful == SelectSeq(results, LAMBDA r : r.success)
           failed == SelectSeq(results, LAMBDA r : ~r.success)
       IN  response' = IF failed # <<>>
                       THEN ErrorResponse(500, "Failed to process batch operations")
                       ELSE [status |-> 200, error |-> "",
                             successful |-> successful, failed |-> failed,
                             total |-> Len(results),
                             success |-> TRUE,
                             batchCount |-> CeilDiv(Len(operations), batchSize)]
    /\ postPc' = "done"
    /\ UNCHANGED <<request, i, batch, opState, results, remoteCalls, batchLog,
                   waitLog>>
    /\ UNCHANGED nonBatchVars

\* The loop has ended: summary statistics and the 200 response.
Respond ==
    /\ postPc = "loop"
    /\ ~(i < Len(operations))
    /\ LET successful == SelectSeq(results, LAMBDA r : r.success)
           failed == SelectSeq(results, LAMBDA r : ~r.success)
       IN  response' = [status |-> 200, error |-> "",
                        successful |-> successful, failed |-> failed,
                        total |-> Len(results),
                        success |-> (Len(failed) = 0),
                        batchCount |-> CeilDiv(Len(operations), batchSize)]
    /\ postPc' = "done"
    /\ UNCHANGED <<request, i, batch, opState, results, remoteCalls, batchLog,
                   waitLog>>
    /\ UNCHANGED nonBatchVars

\* ------------------------------------------------------- PhotoStorageService
\* UTF-16 code unit order of the characters that occur in cache keys.
CodeOrder == "0123456789:ABCDEFGHIJKLMNOPQRSTUVWXYZ_abcdefghijklmnopqrstuvwxyz|"

CodeUnits ==
    [c \in {SubSeq(CodeOrder, k, k) : k \in 1..Len(CodeOrder)} |->
        CHOOSE k \in 1..Len(CodeOrder) : SubSeq(CodeOrder, k, k) = c]

CodeUnit(c) == CodeUnits[c]

\* a < b for strings, as Array.prototype.sort() without a comparator orders them.
RECURSIVE StrLess(_, _)
StrLess(a, b) ==
    IF a = "" THEN b # ""
    ELSE IF b = "" THEN FALSE
    ELSE LET ca == CodeUnit(SubSeq(a, 1, 1))
             cb == CodeUnit(SubSeq(b, 1, 1))
         IN  IF ca # cb THEN ca < cb
             ELSE StrLess(SubSeq(a, 2, Len(a)), SubSeq(b, 2, Len(b)))

\* Array.prototype.sort() on an array of strings.
RECURSIVE InsertSorted(_, _)
InsertSorted(x, sorted) ==
    IF sorted = <<>> THEN <<x>>
    ELSE IF StrLess(Head(sorted), x) \/ Head(sorted) = x
         THEN <<Head(sorted)>> \o InsertSorted(x, Tail(sorted))
         ELSE <<x>> \o sorted

RECURSIVE SortStrings(_)
SortStrings(xs) ==
    IF xs = <<>> THEN <<>> ELSE InsertSorted(Head(xs), SortStrings(Tail(xs)))

\* Array.prototype.join(sep)
RECURSIVE Join(_, _)
Join(xs, sep) ==
    IF xs = <<>> THEN ""
    ELSE IF Len(xs) = 1 THEN xs[1]
    ELSE xs[1] \o sep \o Join(Tail(xs), sep)

\* A parameter value: a string, a number or undefined.
StrVal(x) == [t |-> "string", s |-> x, n |-> 0]
NumVal(x) == [t |-> "number", s |-> "", n |-> x]
Undef == [t |-> "undefined", s |-> "", n |-> 0]
OptStrVal(opt) == IF opt = <<>> THEN Undef ELSE StrVal(opt[1])

\* `${value}` in a template literal.
Stringify(v) ==
    CASE v.t = "string" -> v.s
      [] v.t = "number" -> ToString(v.n)
      [] OTHER -> "undefined"

\* A params object is the sequence of its properties in insertion order.
ObjectKeys(params) == [j \in DOMAIN params |-> params[j].key]

Lookup(params, key) == (CHOOSE pr \in Range(params) : pr.key = key).value

\* Variant: the .sort() call is missing.
GetCacheKey_Unsorted(operation, params) ==
    operation \o ":" \o
    Join([j \in DOMAIN params |->
            ObjectKeys(params)[j] \o ":" \o Stringify(Lookup(params, ObjectKeys(params)[j]))],
         "|")

\* getCacheKey: Object.keys(params).sort().map(key => `${key}:${params[key]}`).join('|')
GetCacheKey(operation, params) ==
    LET sortedKeys == SortStrings(ObjectKeys(params))
    IN  operation \o ":" \o
        Join([j \in DOMAIN sortedKeys |->
                sortedKeys[j] \o ":" \o Stringify(Lookup(params, sortedKeys[j]))],
             "|")

\* The object literal { userId, gameNumber, maxResults, nextCursor } of fetchPhotosByFolder.
FetchParams(userId, gameNumber, maxResults, nextCursor) ==
    << [key |-> "userId", value |-> StrVal(userId)],
       [key |-> "gameNumber", value |-> StrVal(gameNumber)],
       [key |-> "maxResults", value |-> NumVal(maxResults)],
       [key |-> "nextCursor", value |-> OptStrVal(nextCursor)] >>

\* Variant: an entry is returned whatever its age.
CacheFresh_IgnoresTTL(c, key, t) == key \in DOMAIN c

\* getFromCache: whether it returns the entry's data ...
CacheFresh(c, key, t) ==
    /\ key \in DOMAIN c
    /\ ~(t - c[key].timestamp > c[key].ttl)

\* ... and the cache it leaves: an entry found expired is deleted.
CacheAfterGet(c, key, t) ==
    IF key \in DOMAIN c /\ (t - c[key].timestamp > c[key].ttl)
    THEN [k \in DOMAIN c \ {key} |-> c[k]]
    ELSE c

\* setCache(key, data) without a ttl argument: ttl || this.config.cacheTTL
SetCache(c, key, data, t) ==
    [k \in DOMAIN c \cup {key} |->
        IF k = key THEN [data |-> data, timestamp |-> t, ttl |-> config.cacheTTL]
        ELSE c[k]]

RECURSIVE Pow2(_)
Pow2(n) == IF n = 0 THEN 1 ELSE 2 * Pow2(n - 1)

\* The arguments a caller can pass to fetchPhotosByFolder.
UserIds == {"u1", "u2"}
GameNumbers == {"g1"}
Payloads == {"v1", "v2"}          \* what the list endpoint can answer
\* Every failed attempt throws an Error object of its own: the k-th invocation's is "E<k>".
ErrorOf(k) == "E" \o ToString(k)
Jitters == {0, JitterMax - 1}     \* Math.random() * 1000

FetchArgs ==
    [userId : UserIds, gameNumber : GameNumbers,
     maxResults : Opt({10}), nextCursor : {<<>>},
     useCache : BOOLEAN, forceRefresh : BOOLEAN]

NoCall == [kind |-> "none", userId |-> "", gameNumber |-> "", maxResults |-> 0,
           nextCursor |-> <<>>, useCache |-> FALSE, forceRefresh |-> FALSE,
           cacheKey |-> "", hit |-> FALSE, startedAt |-> 0, prior |-> <<>>,
           publicId |-> "", cleared |-> {}]

NoResult == [status |-> "none", data |-> "", fromCache |-> FALSE]

\* The fetch arguments that decide the cache key.
KeyArgs(c) == <<c.userId, c.gameNumber, c.maxResults, c.nextCursor>>

\* The key-deciding arguments fetchPhotosByFolder can be called with on the
\* default instance, and the cache key of each.
FetchKeyArgs ==
    {<<a.userId, a.gameNumber, OrDefault(a.maxResults, DefaultPageSize), a.nextCursor>> :
        a \in FetchArgs}

CacheKeyOf ==
    [ka \in FetchKeyArgs |->
        GetCacheKey("fetchPhotos", FetchParams(ka[1], ka[2], ka[3], ka[4]))]

\* String.prototype.includes
Includes(str, pattern) ==
    \E j \in 1..(Len(str) - Len(pattern) + 1) : SubSeq(str, j, j + Len(pattern) - 1) = pattern

\* Variant: the pattern is ignored; every write empties the cache.
ClearCache_Everything(c, pattern) == <<>>

\* clearCache(pattern): without a pattern (undefined or "") the whole cache is
\* cleared; otherwise every key that includes the pattern is deleted.
ClearCache(c, pattern) ==
    IF pattern = "" THEN <<>>
    ELSE [k \in {k \in DOMAIN c : ~Includes(k, pattern)} |-> c[k]]

\* The publicIds a caller can pass to updatePhotoMetadata / deletePhoto: an
\* asset's id, an id that happens to occur in cache keys, and the empty string.
WritePublicIds == {"photos/u1/g1/p1", "u1", ""}

\* Constructor: { ...DEFAULT_CONFIG, ...config }
Configs ==
    {[maxRetries |-> OrDefault(m, DefaultMaxRetries), retryDelay |-> RetryDelay,
      cacheTTL |-> CacheTTL, batchSize |-> DefaultPageSize] : m \in Opt(0..MaxRetriesCfg)}

\* fetchPhotosByFolder up to its first suspension: the cache key, the cache read
\* and, on a miss, withRetry's first invocation of the operation.
FetchPhotosByFolder(a) ==
    /\ svcPc \in {"idle", "returned", "thrown"}
    /\ calls < MaxCalls
    /\ \E key \in {GetCacheKey("fetchPhotos",
                        FetchParams(a.userId, a.gameNumber,
                                    OrDefault(a.maxResults, config.batchSize), a.nextCursor))} :
         LET read == a.useCache /\ ~a.forceRefresh
             hit == read /\ CacheFresh(cache, key, now)
             c == [kind |-> "fetch", userId |-> a.userId, gameNumber |-> a.gameNumber,
                   maxResults |-> OrDefault(a.maxResults, config.batchSize),
                   nextCursor |-> a.nextCursor,
                   useCache |-> a.useCache, forceRefresh |-> a.forceRefresh,
                   cacheKey |-> key, hit |-> hit, startedAt |-> now, prior |-> <<>>,
                   publicId |-> "", cleared |-> {}]
         IN  /\ call' = [c EXCEPT !.prior = IF KeyArgs(c) \in DOMAIN stored
                                            THEN <<stored[KeyArgs(c)]>> ELSE <<>>]
             /\ cache' = IF read THEN CacheAfterGet(cache, key, now) ELSE cache
             /\ IF hit
                THEN /\ svcPc' = "returned"
                     /\ callResult' = [status |-> "value", data |-> cache[key].data,
                                       fromCache |-> TRUE]
                     /\ invocations' = 0
                ELSE /\ svcPc' = "attempt"
                     /\ callResult' = NoResult
                     /\ invocations' = 1
    /\ calls' = calls + 1
    /\ attempt' = 0
    /\ lastError' = ""
    /\ outcomes' = <<>>
    /\ backoffs' = 0
    /\ lastDelay' = 0
    /\ UNCHANGED <<config, now, ticks, writes, stored>>
    /\ UNCHANGED nonStorageVars

\* Variant: a successful attempt does not return; the loop goes on to the next attempt.
OperationResolves_NoReturn(data) ==
    /\ svcPc = "attempt"
    /\ call.kind = "fetch"
    /\ outcomes' = Append(outcomes, [ok |-> TRUE, v |-> data])
    /\ IF attempt < config.maxRetries
       THEN /\ attempt' = attempt + 1
            /\ invocations' = invocations + 1
            /\ UNCHANGED <<svcPc, callResult, cache, stored>>
       ELSE /\ svcPc' = "returned"
            /\ callResult' = [status |-> "value", data |-> data, fromCache |-> FALSE]
            /\ cache' = IF call.useCache THEN SetCache(cache, call.cacheKey, data, now)
                        ELSE cache
            /\ stored' = stored
            /\ UNCHANGED <<attempt, invocations>>
    /\ UNCHANGED <<config, now, ticks, calls, writes, call, lastError, backoffs, lastDelay>>
    /\ UNCHANGED nonStorageVars

\* operation() of a fetch resolves: withRetry returns its value, and
\* fetchPhotosByFolder stores it in the cache when useCache and returns it.
OperationResolves(data) ==
    /\ svcPc = "attempt"
    /\ call.kind = "fetch"
    /\ outcomes' = Append(outcomes, [ok |-> TRUE, v |-> data])
    /\ svcPc' = "returned"
    /\ callResult' = [status |-> "value", data |-> data, fromCache |-> FALSE]
    /\ IF call.useCache
       THEN /\ cache' = SetCache(cache, call.cacheKey, data, now)
            /\ stored' = [k \in DOMAIN stored \cup {KeyArgs(call)} |->
                            IF k = KeyArgs(call) THEN [data |-> data, at |-> now]
                            ELSE stored[k]]
       ELSE UNCHANGED <<cache, stored>>
    /\ UNCHANGED <<config, now, ticks, calls, writes, call, attempt, invocations,
                   lastError, backoffs, lastDelay>>
    /\ UNCHANGED nonStorageVars

\* Variant: the give-up test is off by one (attempt + 1 >= maxRetries).
OperationRejects_OffByOne(jitter) ==
    /\ svcPc = "attempt"
    /\ lastError' = ErrorOf(invocations)
    /\ outcomes' = Append(outcomes, [ok |-> FALSE, v |-> ErrorOf(invocations)])
    /\ IF attempt + 1 >= config.maxRetries
       THEN /\ svcPc' = "thrown"
            /\ callResult' = [status |-> "error", data |-> lastError', fromCache |-> FALSE]
            /\ UNCHANGED <<backoffs, lastDelay>>
       ELSE /\ svcPc' = "backoff"
            /\ backoffs' = backoffs + 1
            /\ lastDelay' = config.retryDelay * Pow2(attempt) + jitter
            /\ UNCHANGED callResult
    /\ UNCHANGED <<config, cache, now, ticks, calls, writes, call, attempt, invocations,
                   stored>>
    /\ UNCHANGED nonStorageVars

\* operation() rejects: withRetry's catch block.  At attempt = maxRetries the
\* error is thrown; otherwise the backoff timer is started.
OperationRejects(jitter) ==
    /\ svcPc = "attempt"
    /\ lastError' = ErrorOf(invocations)
    /\ outcomes' = Append(outcomes, [ok |-> FALSE, v |-> ErrorOf(invocations)])
    /\ IF attempt = config.maxRetries
       THEN /\ svcPc' = "thrown"
            /\ callResult' = [status |-> "error", data |-> lastError', fromCache |-> FALSE]
            /\ UNCHANGED <<backoffs, lastDelay>>
       ELSE /\ svcPc' = "backoff"
            /\ backoffs' = backoffs + 1
            /\ lastDelay' = config.retryDelay * Pow2(attempt) + jitter
            /\ UNCHANGED callResult
    /\ UNCHANGED <<config, cache, now, ticks, calls, writes, call, attempt, invocations,
                   stored>>
    /\ UNCHANGED nonStorageVars

\* A write call up to its first suspension: withRetry's first invocation of the
\* operation (the POST / DELETE request to the API route).
StartWrite(kind, publicId) ==
    /\ svcPc \in {"idle", "returned", "thrown"}
    /\ writes < MaxWrites
    /\ writes' = writes + 1
    /\ call' = [NoCall EXCEPT !.kind = kind, !.publicId = publicId, !.startedAt = now]
    /\ svcPc' = "attempt"
    /\ callResult' = NoResult
    /\ invocations' = 1
    /\ attempt' = 0
    /\ lastError' = ""
    /\ outcomes' = <<>>
    /\ backoffs' = 0
    /\ lastDelay' = 0
    /\ UNCHANGED <<config, cache, now, ticks, calls, stored>>
    /\ UNCHANGED nonStorageVars

\* updatePhotoMetadata(updateRequest)
UpdatePhotoMetadata(publicId) == StartWrite("update", publicId)

\* deletePhoto(deleteRequest)
DeletePhoto(publicId) == StartWrite("delete", publicId)

\* The operation of a write resolves (with true): withRetry returns it, the
\* caller runs clearCache(publicId) and then returns the result.
WriteResolves(kind) ==
    /\ svcPc = "attempt"
    /\ call.kind = kind
    /\ outcomes' = Append(outcomes, [ok |-> TRUE, v |-> "true"])
    /\ cache' = ClearCache(cache, call.publicId)
    /\ stored' = [ka \in {ka \in DOMAIN stored :
                              call.publicId # "" /\ ~Includes(CacheKeyOf[ka], call.publicId)} |->
                     stored[ka]]
    /\ call' = [call EXCEPT !.cleared = DOMAIN cache \ DOMAIN cache']
    /\ svcPc' = "returned"
    /\ callResult' = [status |-> "value", data |-> "true", fromCache |-> FALSE]
    /\ UNCHANGED <<config, now, ticks, calls, writes, attempt, invocations, lastError,
                   backoffs, lastDelay>>
    /\ UNCHANGED nonStorageVars

UpdateResolves == WriteResolves("update")

DeleteResolves == WriteResolves("delete")

\* The backoff timer fires: attempt++ and the next invocation.  (The clock is
\* advanced by Tick alone, which can happen at any suspension point.)
BackoffElapsed ==
    /\ svcPc = "backoff"
    /\ attempt' = attempt + 1
    /\ invocations' = invocations + 1
    /\ svcPc' = "attempt"
    /\ UNCHANGED <<config, cache, now, ticks, calls, writes, call, lastError, outcomes,
                   backoffs, lastDelay, callResult, stored>>
    /\ UNCHANGED nonStorageVars

\* Time passes: by exactly the TTL, or by a millisecond more.
Tick(d) ==
    /\ ticks < MaxTicks
    /\ ticks' = ticks + 1
    /\ now' = now + d
    /\ UNCHANGED <<config, cache, calls, writes, svcPc, call, attempt, invocations,
                   lastError, outcomes, backoffs, lastDelay, callResult, stored>>
    /\ UNCHANGED nonStorageVars

\* ------------------------------------------------------ rateLimit(config).check
\* The identifiers the batch route passes to its limiter (POST and GET).
Purposes == {"BATCH_RATE_LIMIT", "BATCH_STATUS_LIMIT"}

\* The x-forwarded-for header of a request: absent, or a list of addresses.
Forwardeds == Opt({"10.0.0.1, 10.0.0.2"})

\* The limits a route passes to check (the routes pass 10, 20 and 30).
Limits == {1, 2}

\* forwarded.split(',')[0]
SplitFirst(str) ==
    LET commas == {j \in 1..Len(str) : SubSeq(str, j, j) = ","}
    IN  IF commas = {} THEN str
        ELSE SubSeq(str, 1, (CHOOSE j \in commas : \A k \in commas : j <= k) - 1)

\* const ip = forwarded ? forwarded.split(',')[0] : 'anonymous'  (null and "" are falsy)
ClientIp(forwarded) ==
    IF forwarded = <<>> \/ forwarded[1] = "" THEN "anonymous" ELSE SplitFirst(forwarded[1])

\* const key = `${identifier}:${ip}`, for every identifier and header
KeyOf == [purpose \in Purposes, forwarded \in Forwardeds |->
            purpose \o ":" \o ClientIp(forwarded)]

\* tokens.get(key) || []
TokensOf(key) == IF key \in DOMAIN tokens THEN tokens[key] ELSE <<>>

\* tokenCount.filter(timestamp => timestamp > windowStart)
ValidTokens(key, t) == SelectSeq(TokensOf(key), LAMBDA timestamp : timestamp > t - Interval)

\* The requests waiting for the event loop to run their handler.
Waiting == {kind \in DOMAIN pending : pending[kind] > 0}

RECURSIVE PendingIn(_)
PendingIn(kinds) ==
    IF kinds = {} THEN 0
    ELSE LET kind == CHOOSE kind \in kinds : TRUE
         IN  pending[kind] + PendingIn(kinds \ {kind})

WaitingCount == PendingIn(Waiting)

\* The requests waiting whose check will use the given key.
WaitingFor(key) == PendingIn({kind \in Waiting : KeyOf[kind[1], kind[2]] = key})

\* A request for one of the route's handlers reaches the server and waits for
\* the event loop to run its handler.
Arrive(purpose, forwarded) ==
    /\ checks + WaitingCount < MaxChecks
    /\ pending' = [pending EXCEPT ![<<purpose, forwarded>>] = @ + 1]
    /\ UNCHANGED <<limitOf, tokens, clock, advances, checks, checkLog>>
    /\ UNCHANGED nonLimiterVars

\* The record a completed check leaves in checkLog.
Logged(key, rec) ==
    [k \in DOMAIN checkLog \cup {key} |->
        IF k = key
        THEN Append(IF key \in DOMAIN checkLog THEN checkLog[key] ELSE <<>>, rec)
        ELSE checkLog[k]]

\* Variant: the comparison is > instead of >=.
CheckOutcome_OffByOne(key, limit, t) ==
    LET validTokens == ValidTokens(key, t)
    IN  IF Len(validTokens) > limit
        THEN [admitted |-> FALSE, tokens |-> tokens]
        ELSE [admitted |-> TRUE,
              tokens |-> [k \in DOMAIN tokens \cup {key} |->
                            IF k = key THEN Append(validTokens, t) ELSE tokens[k]]]

\* Variant: the timestamp is pushed and stored before the limit is tested, so a
\* rejected request is recorded too.
CheckOutcome_RecordsRejected(key, limit, t) ==
    LET validTokens == ValidTokens(key, t)
        stored_ == [k \in DOMAIN tokens \cup {key} |->
                      IF k = key THEN Append(validTokens, t) ELSE tokens[k]]
    IN  IF Len(validTokens) >= limit
        THEN [admitted |-> FALSE, tokens |-> stored_]
        ELSE [admitted |-> TRUE, tokens |-> stored_]

\* Variant: an admitted request is not written back to the Map.
CheckOutcome_NoRecord(key, limit, t) ==
    LET validTokens == ValidTokens(key, t)
    IN  IF Len(validTokens) >= limit
        THEN [admitted |-> FALSE, tokens |-> tokens]
        ELSE [admitted |-> TRUE, tokens |-> tokens]

\* check: what it leaves in the Map and whether it returned (TRUE) or threw (FALSE).
CheckOutcome(key, limit, t) ==
    LET validTokens == ValidTokens(key, t)
    IN  IF Len(validTokens) >= limit
        THEN [admitted |-> FALSE, tokens |-> tokens]
        ELSE [admitted |-> TRUE,
              tokens |-> [k \in DOMAIN tokens \cup {key} |->
                            IF k = key THEN Append(validTokens, t) ELSE tokens[k]]]

\* The event loop runs the handler of a waiting request up to its first
\* suspension: `await limiter.check(request, limit, identifier)`.  check has no
\* await of its own, so it runs to its return or throw within this step; when it
\* throws, the handler answers 429 with { error } and no header.
\* (slots and others in the log: the free slots of the key before the check and
\* the other requests for the key waiting at that moment.)
Check(purpose, forwarded) ==
    /\ pending[<<purpose, forwarded>>] > 0
    /\ LET key == KeyOf[purpose, forwarded]
           limit == limitOf[purpose]
           out == CheckOutcome(key, limit, clock)
       IN  /\ tokens' = out.tokens
           /\ checkLog' = Logged(key,
                 [purpose |-> purpose, at |-> clock, admitted |-> out.admitted,
                  slots |-> limit - Len(ValidTokens(key, clock)),
                  others |-> WaitingFor(key) - 1,
                  status |-> IF out.admitted THEN 0 ELSE 429, retryAfter |-> <<>>])
    /\ pending' = [pending EXCEPT ![<<purpose, forwarded>>] = @ - 1]
    /\ checks' = checks + 1
    /\ UNCHANGED <<limitOf, clock, advances>>
    /\ UNCHANGED nonLimiterVars

\* The server clock advances.
AdvanceClock(d) ==
    /\ advances < MaxAdvances
    /\ advances' = advances + 1
    /\ clock' = clock + d
    /\ UNCHANGED <<limitOf, tokens, pending, checks, checkLog>>
    /\ UNCHANGED nonLimiterVars

\* ------------------------------------------------------------ checkRateLimit
\* The identifiers getClientIdentifier produces.
Identifiers == {"ip:unknown", "ip:10.0.0.1"}

\* options.duration: Math.floor(UPLOAD_RATE_LIMIT_WINDOW_MS / 1000), in seconds
Duration == WindowMs \div 1000

\* The environment: whether REDIS_URL is set in production, and
\* UPLOAD_RATE_LIMIT_REQUESTS (10 by default).
Envs == [redis : BOOLEAN, points : Limits]

\* initializeRateLimiter: RateLimiterRedis or RateLimiterMemory
InitializeRateLimiter == IF rlEnv.redis THEN "redis" ELSE "memory"

\* The counter of an identifier as consume finds it: a counter that has reached
\* its expiry is gone.
Counter(identifier, t) ==
    IF identifier \in DOMAIN rlStore /\ rlStore[identifier].expiresAt > t
    THEN rlStore[identifier]
    ELSE [consumedPoints |-> 0, expiresAt |-> t + Duration * 1000, began |-> t]

\* limiter.consume(identifier) with points, duration and blockDuration as
\* configured: one point is added to the identifier's counter of the current
\* window; a counter above `points` rejects, and the moment it first goes above
\* it the identifier is blocked for blockDuration seconds from then on.  With
\* the store unreachable the call rejects with an Error.
Consume(identifier, reachable, t) ==
    IF ~reachable
    THEN [kind |-> "error", msBeforeNext |-> <<>>, remainingPoints |-> <<>>,
          store |-> rlStore, began |-> t]
    ELSE LET before == Counter(identifier, t)
             consumed == before.consumedPoints + 1
             blocks == consumed > rlEnv.points /\ BlockDuration > 0
                       /\ consumed <= rlEnv.points + 1
             after == [before EXCEPT !.consumedPoints = consumed,
                                     !.expiresAt = IF blocks THEN t + BlockDuration * 1000
                                                   ELSE before.expiresAt]
         IN  [kind |-> IF consumed > rlEnv.points THEN "rejected" ELSE "resolved",
              msBeforeNext |-> <<after.expiresAt - t>>,
              remainingPoints |-> <<Max(rlEnv.points - consumed, 0)>>,
              store |-> [k \in DOMAIN rlStore \cup {identifier} |->
                           IF k = identifier THEN after ELSE rlStore[k]],
              began |-> before.began]

\* Math.round(rejRes.msBeforeNext / 1000) || 60   (undefined gives NaN, NaN gives 60)
RetryAfter(msBeforeNext) ==
    IF msBeforeNext = <<>> \/ (msBeforeNext[1] + 500) \div 1000 = 0
    THEN DefaultRetryAfter
    ELSE (msBeforeNext[1] + 500) \div 1000

\* Variant: a rejection that is not a rate-limit result lets the request through.
RateLimitResult_FailOpen(out) ==
    IF out.kind \in {"resolved", "error"}
    THEN [allowed |-> TRUE, remaining |-> out.remainingPoints, retryAfter |-> <<>>]
    ELSE [allowed |-> FALSE, remaining |-> <<>>,
          retryAfter |-> <<RetryAfter(out.msBeforeNext)>>]

\* What checkRateLimit returns: the try block for a resolved consume, the catch
\* block for every rejection.
RateLimitResult(out) ==
    IF out.kind = "resolved"
    THEN [allowed |-> TRUE, remaining |-> out.remainingPoints, retryAfter |-> <<>>]
    ELSE [allowed |-> FALSE, remaining |-> <<>>,
          retryAfter |-> <<RetryAfter(out.msBeforeNext)>>]

\* checkRateLimit(identifier): getRateLimiter() creates the limiter on first use;
\* only the Redis store can be unreachable.
CheckRateLimit(identifier, reachable) ==
    /\ checks < MaxChecks
    /\ reachable \/ InitializeRateLimiter = "redis"
    /\ rateLimiter' = IF rateLimiter = "unset" THEN InitializeRateLimiter ELSE rateLimiter
    /\ LET out == Consume(identifier, reachable, clock)
           res == RateLimitResult(out)
       IN  /\ rlStore' = out.store
           /\ rlLog' = [k \in DOMAIN rlLog \cup {identifier} |->
                          IF k = identifier
                          THEN Append(IF identifier \in DOMAIN rlLog THEN rlLog[identifier]
                                      ELSE <<>>,
                                      [at |-> clock, unreachable |-> ~reachable,
                                       began |-> out.began, allowed |-> res.allowed,
                                       remaining |-> res.remaining,
                                       retryAfter |-> res.retryAfter])
                          ELSE rlLog[k]]
    /\ checks' = checks + 1
    /\ UNCHANGED <<rlEnv, clock, advances>>
    /\ UNCHANGED nonUploadLimiterVars

\* ------------------------------------------- CloudinaryUploader (part_007)
\* One mounted component.  The files offered to the dropzone are numbered in
\* the order they are offered; a file's number stands for its name, and the
\* task made from it gets that number as its (unique) id.
FileNames == 1..MaxFiles

ImageTypes == {"image/png"}

\* What the user can drop: a size at or just above the limit, an image or not.
DroppedFiles == [size : {MAX_FILE_SIZE, MAX_FILE_SIZE + 1},
                 type : {"image/png", "application/pdf"}]

Drops == UNION {[1..n -> DroppedFiles] : n \in 1..MaxFiles}

\* The dropzone's accept / maxSize options.
AcceptedFile_AnySize(file) == file.type \in ImageTypes

AcceptedFile(file) == file.size <= MAX_FILE_SIZE /\ file.type \in ImageTypes

\* onDropRejected: the message for one rejected file.
RejectionOf(name, file) ==
    [name |-> name,
     reason |-> IF file.size > MAX_FILE_SIZE THEN "is too large (max 10MB)"
                ELSE IF file.type \notin ImageTypes THEN "is not a valid image file"
                ELSE "was rejected"]

NoError == [kind |-> "null"]

NoItem == [present |-> FALSE, photos |-> <<>>]

\* onDrop's newFiles entry.
NewTask(id) ==
    [id |-> id, status |-> "pending", progress |-> 0, error |-> "", retryCount |-> 0]

TaskIds(files) == {files[k].id : k \in 1..Len(files)}

TaskOf(files, id) == files[CHOOSE k \in 1..Len(files) : files[k].id = id]

IsPendingOrError(f) == f.status = "pending" \/ f.status = "error"

\* processUploads: the ids of pendingFiles, in list order.
PendingFiles(files) ==
    LET kept == SelectSeq(files, IsPendingOrError)
    IN  [k \in 1..Len(kept) |-> kept[k].id]

PendingCount == Cardinality({k \in 1..Len(uploadFiles) : uploadFiles[k].status = "pending"})

\* setUploadFiles(prev => prev.map(f => f.id === id ? {...} : f)) for the
\* four updates the component makes.
SetUploading(files, id) ==
    [k \in 1..Len(files) |->
        IF files[k].id = id
        THEN [files[k] EXCEPT !.status = "uploading", !.progress = 0]
        ELSE files[k]]

SetCompleted(files, id) ==
    [k \in 1..Len(files) |->
        IF files[k].id = id
        THEN [files[k] EXCEPT !.status = "completed", !.progress = 100]
        ELSE files[k]]

SetError(files, id) ==
    [k \in 1..Len(files) |->
        IF files[k].id = id
        THEN [files[k] EXCEPT !.status = "error", !.error = "Upload failed",
                              !.retryCount = @ + 1]
        ELSE files[k]]

SetPending(files, id) ==
    [k \in 1..Len(files) |->
        IF files[k].id = id
        THEN [files[k] EXCEPT !.status = "pending", !.error = ""]
        ELSE files[k]]

\* The Photo built from a successful upload of the file.
PhotoOf(id) == [filename |-> id]

RemoveAt(s, r) == [k \in 1..(Len(s) - 1) |-> IF k < r THEN s[k] ELSE s[k + 1]]

\* What processUploads reads of the uploadFiles of its render.
Closure(files) == [length |-> Len(files), pendingFiles |-> PendingFiles(files)]

\* processUploads of the render whose uploadFiles is summed up in `closure`,
\* up to its first await.
ProcessUploads(closure) ==
    IF closure.length = 0
    THEN UNCHANGED <<uploadFiles, isUploading, overallProgress, runs, intervals>>
    ELSE LET pendingFiles == closure.pendingFiles
         IN  /\ overallProgress' = 0
             /\ IF pendingFiles = <<>>
                THEN /\ isUploading' = FALSE
                     /\ UNCHANGED <<uploadFiles, runs, intervals>>
                ELSE /\ isUploading' = TRUE
                     /\ uploadFiles' = SetUploading(uploadFiles, pendingFiles[1])
                     /\ intervals' = [intervals EXCEPT ![pendingFiles[1]] = @ + 1]
                     /\ runs' = Append(runs, [pendingFiles |-> pendingFiles, i |-> 1,
                                              completedCount |-> 0])

\* The dropzone takes a drop: onDrop with the accepted files, then
\* onDropRejected if any file was rejected.
OnDrop(files) ==
    /\ offered + Len(files) <= MaxFiles
    /\ LET names == [k \in 1..Len(files) |-> offered + k]
           IsAccepted(name) == AcceptedFile(files[name - offered])
           acceptedFiles == SelectSeq(names, IsAccepted)
           IsRejected(name) == ~AcceptedFile(files[name - offered])
           rejectedFiles == SelectSeq(names, IsRejected)
       IN  /\ uploadFiles' = uploadFiles \o
                  [k \in 1..Len(acceptedFiles) |-> NewTask(acceptedFiles[k])]
           /\ error' = IF rejectedFiles = <<>> THEN NoError
                       ELSE [kind |-> "rejected",
                             messages |-> [k \in 1..Len(rejectedFiles) |->
                                 RejectionOf(rejectedFiles[k],
                                             files[rejectedFiles[k] - offered])]]
    /\ offered' = offered + Len(files)
    /\ UNCHANGED <<uploadedPhotos, sessionStore, isUploading, overallProgress, runs,
                   retryTimers, intervals, invoked>>
    /\ dropped' = dropped \o files
    /\ UNCHANGED retries
    /\ UNCHANGED nonUploaderVars

\* The "Upload N Files" button can be pressed.
StartEnabled == ~isUploading /\ PendingCount # 0

HandleStartUpload ==
    /\ invoked < MaxClicks
    /\ Len(uploadFiles) # 0
    /\ ProcessUploads(Closure(uploadFiles))
    /\ invoked' = invoked + 1
    /\ UNCHANGED <<uploadedPhotos, sessionStore, error, offered, retryTimers>>
    /\ UNCHANGED <<dropped, retries>>
    /\ UNCHANGED nonUploaderVars

\* The Retry button of the task is on the page.
RetryShown(id) ==
    /\ id \in TaskIds(uploadFiles)
    /\ TaskOf(uploadFiles, id).status = "error"
    /\ TaskOf(uploadFiles, id).retryCount < MAX_RETRIES

\* retryUpload(uploadFile) for a task of the list.  The timer it starts calls
\* the processUploads of the current render, which holds the list as it is
\* before this update.
RetryUpload(id) ==
    /\ invoked < MaxClicks
    /\ id \in TaskIds(uploadFiles)
    /\ IF TaskOf(uploadFiles, id).retryCount >= MAX_RETRIES
       THEN /\ error' = [kind |-> "max", name |-> id]
            /\ UNCHANGED <<uploadFiles, retryTimers, retries>>
       ELSE /\ uploadFiles' = SetPending(uploadFiles, id)
            /\ retryTimers' = Append(retryTimers, Closure(uploadFiles))
            /\ retries' = [retries EXCEPT ![id] = @ + 1]
            /\ UNCHANGED error
    /\ invoked' = invoked + 1
    /\ UNCHANGED <<uploadedPhotos, sessionStore, isUploading, overallProgress, runs,
                   intervals, offered>>
    /\ UNCHANGED dropped
    /\ UNCHANGED nonUploaderVars

\* The 100 ms timer of a retry fires; timers of equal delay fire in the order
\* they were started.
RetryTimerFires ==
    /\ retryTimers # <<>>
    /\ ProcessUploads(Head(retryTimers))
    /\ retryTimers' = Tail(retryTimers)
    /\ UNCHANGED <<uploadedPhotos, sessionStore, error, offered, invoked>>
    /\ UNCHANGED <<dropped, retries>>
    /\ UNCHANGED nonUploaderVars

\* The for loop has a further iteration after the upload of the run has settled;
\* the catch is inside the loop body.
LoopContinues_UnlessFailed(run, ok) == ok /\ run.i < Len(run.pendingFiles)

LoopContinues(run, ok) == run.i < Len(run.pendingFiles)

\* The remote call of run r settles and processUploads runs on to its next
\* await or to its end.
UploadSettles(r, ok) ==
    /\ r \in 1..Len(runs)
    /\ LET run == runs[r]
           uploadFile == run.pendingFiles[run.i]
           settled == IF ok THEN SetCompleted(uploadFiles, uploadFile)
                      ELSE SetError(uploadFiles, uploadFile)
           completedCount == IF ok THEN run.completedCount + 1 ELSE run.completedCount
           cleared == IF ok THEN [intervals EXCEPT ![uploadFile] = @ - 1] ELSE intervals
       IN  /\ uploadedPhotos' = IF ok THEN Append(uploadedPhotos, PhotoOf(uploadFile))
                                ELSE uploadedPhotos
           /\ sessionStore' = IF ok THEN [present |-> TRUE, photos |-> uploadedPhotos']
                              ELSE sessionStore
           /\ overallProgress' = IF ok
                                 THEN (completedCount * 100) \div Len(run.pendingFiles)
                                 ELSE overallProgress
           /\ error' = IF ok THEN error ELSE [kind |-> "failed", name |-> uploadFile]
           /\ IF LoopContinues(run, ok)
              THEN /\ uploadFiles' = SetUploading(settled, run.pendingFiles[run.i + 1])
                   /\ intervals' = [cleared EXCEPT ![run.pendingFiles[run.i + 1]] = @ + 1]
                   /\ runs' = [runs EXCEPT ![r] = [run EXCEPT !.i = @ + 1,
                                                     !.completedCount = completedCount]]
                   /\ UNCHANGED isUploading
              ELSE /\ uploadFiles' = settled
                   /\ intervals' = cleared
                   /\ runs' = RemoveAt(runs, r)
                   /\ isUploading' = FALSE
    /\ UNCHANGED <<offered, retryTimers, invoked>>
    /\ UNCHANGED <<dropped, retries>>
    /\ UNCHANGED nonUploaderVars

\* A progress interval of the task fires while the task is uploading.
\* Math.random() * 30 is taken at its upper end.
IntervalTick(id) ==
    /\ intervals[id] > 0
    /\ id \in TaskIds(uploadFiles)
    /\ TaskOf(uploadFiles, id).status = "uploading"
    /\ TaskOf(uploadFiles, id).progress < ProgressCap
    /\ uploadFiles' = [k \in 1..Len(uploadFiles) |->
                          IF uploadFiles[k].id = id
                          THEN [uploadFiles[k] EXCEPT
                                   !.progress = Min(@ + ProgressStep, ProgressCap)]
                          ELSE uploadFiles[k]]
    /\ UNCHANGED <<uploadedPhotos, sessionStore, isUploading, overallProgress, error,
                   offered, runs, retryTimers, intervals, invoked>>
    /\ UNCHANGED <<dropped, retries>>
    /\ UNCHANGED nonUploaderVars

RemoveFile(fileId) ==
    /\ fileId \in TaskIds(uploadFiles)
    /\ uploadFiles' = LET Others(f) == f.id # fileId IN SelectSeq(uploadFiles, Others)
    /\ UNCHANGED <<uploadedPhotos, sessionStore, isUploading, overallProgress, error,
                   offered, runs, retryTimers, intervals, invoked>>
    /\ UNCHANGED <<dropped, retries>>
    /\ UNCHANGED nonUploaderVars

\* "Clear All" is on the page while the list is not empty.
HandleClearAll ==
    /\ Len(uploadFiles) > 0
    /\ uploadFiles' = <<>>
    /\ uploadedPhotos' = <<>>
    /\ overallProgress' = 0
    /\ error' = NoError
    /\ UNCHANGED <<sessionStore, isUploading, offered, runs, retryTimers, intervals,
                   invoked>>
    /\ UNCHANGED <<dropped, retries>>
    /\ UNCHANGED nonUploaderVars

\* The component right after it is mounted.
UploaderMounted ==
    /\ uploadFiles = <<>>
    /\ uploadedPhotos = <<>>
    /\ sessionStore = NoItem
    /\ isUploading = FALSE
    /\ overallProgress = 0
    /\ error = NoError
    /\ offered = 0
    /\ runs = <<>>
    /\ retryTimers = <<>>
    /\ intervals = [id \in FileNames |-> 0]
    /\ invoked = 0
    /\ dropped = <<>>
    /\ retries = [id \in FileNames |-> 0]

\* ------------------------------------- Cloudinary webhook route (part_005)
\* Strings that are decoded character by character are sequences of
\* one-character strings.
HexDigits == {"0", "1", "2", "3", "4", "5", "6", "7", "8", "9",
              "a", "b", "c", "d", "e", "f", "A", "B", "C", "D", "E", "F"}

LowerCase(c) ==
    CASE c = "A" -> "a" [] c = "B" -> "b" [] c = "C" -> "c"
      [] c = "D" -> "d" [] c = "E" -> "e" [] c = "F" -> "f"
      [] OTHER -> c

UpperCase(c) ==
    CASE c = "a" -> "A" [] c = "b" -> "B" [] c = "c" -> "C"
      [] c = "d" -> "D" [] c = "e" -> "E" [] c = "f" -> "F"
      [] OTHER -> c

\* Buffer.from(str, 'hex'): one byte per pair of hex digits, up to the first
\* pair that is incomplete or not hexadecimal.
RECURSIVE HexBytesFrom(_, _)
HexBytesFrom(str, k) ==
    IF k + 1 > Len(str) \/ str[k] \notin HexDigits \/ str[k + 1] \notin HexDigits
    THEN <<>>
    ELSE <<<<LowerCase(str[k]), LowerCase(str[k + 1])>>>> \o HexBytesFrom(str, k + 2)

BufferFromHex(str) == HexBytesFrom(str, 1)

\* The bodies a request can carry: JSON or not, with or without the two
\* required fields.
WebhookBodies ==
    {[json |-> FALSE, notification_type |-> "", timestamp |-> 0],
     [json |-> TRUE, notification_type |-> "", timestamp |-> 1700000000],
     [json |-> TRUE, notification_type |-> "upload", timestamp |-> 0],
     [json |-> TRUE, notification_type |-> "upload", timestamp |-> 1700000000],
     [json |-> TRUE, notification_type |-> "resource_tags_changed",
      timestamp |-> 1700000000]}

WebhookSecrets == {"", "whsec"}

\* crypto.createHash('sha256').update(data).digest('hex'): 64 hex digits,
\* different for different data.
Sha256Hex(payload, secret) ==
    [n \in 1..(2 * DigestBytes) |->
        IF n = 2 * DigestBytes
        THEN (IF ~payload.json THEN "a"
              ELSE IF payload.notification_type = "" THEN "b"
              ELSE IF payload.timestamp = 0 THEN "c"
              ELSE IF payload.notification_type = "upload" THEN "d"
              ELSE "e")
        ELSE IF n = 2 * DigestBytes - 1
        THEN (IF secret = "whsec" THEN "1" ELSE "2")
        ELSE "0"]

\* crypto.timingSafeEqual(a, b): "throws" for buffers of different length.
TimingSafeEqual(a, b) ==
    IF Len(a) # Len(b) THEN "throws" ELSE IF a = b THEN "true" ELSE "false"

VerifyWebhookSignature(payload, signature, secret) ==
    \/ secret = ""
    \/ LET expectedSignature == Sha256Hex(payload, secret)
       IN  TimingSafeEqual(BufferFromHex(signature),
                           BufferFromHex(expectedSignature)) = "true"

\* What a sender can put into a signature header of a request with this body.
SignaturesFor(payload) ==
    LET good == Sha256Hex(payload, "whsec")
    IN  {good,
         [n \in 1..Len(good) |-> UpperCase(good[n])],
         Sha256Hex(payload, "other"),
         Sha256Hex([json |-> TRUE, notification_type |-> "upload",
                    timestamp |-> IF payload.timestamp = 0 THEN 1700000000 ELSE 0],
                   "whsec"),
         SubSeq(good, 1, Len(good) - 2),
         good \o <<"0", "0">>,
         good \o <<"0">>,
         good \o <<"z", "z">>,
         <<"z", "z">>,
         <<>>}

\* A request: its body and its two signature headers (<<>>: header absent).
\* The signature is in one of the two headers, the other being absent or, for
\* the first, empty.
WebhookRequests ==
    UNION {[body : {payload}, cld : Opt(SignaturesFor(payload)), cloudinary : {<<>>}]
           \cup [body : {payload}, cld : Opt({<<>>}),
                 cloudinary : Opt(SignaturesFor(payload))] : payload \in WebhookBodies}

NoWebhookRequest ==
    [body |-> [json |-> FALSE, notification_type |-> "", timestamp |-> 0],
     cld |-> <<>>, cloudinary |-> <<>>]

\* request.headers.get('x-cld-signature') ||
\* request.headers.get('x-cloudinary-signature') || ''
SignatureOf(req) ==
    IF req.cld # <<>> /\ req.cld[1] # <<>> THEN req.cld[1]
    ELSE IF req.cloudinary # <<>> /\ req.cloudinary[1] # <<>> THEN req.cloudinary[1]
    ELSE <<>>

\* POST up to its response or to the await of handleWebhookEvent.
WebhookPost(req) ==
    /\ hookPc \in {"idle", "responded"}
    /\ hookReq' = req
    /\ IF webhookSecret # ""
          /\ ~VerifyWebhookSignature(req.body, SignatureOf(req), webhookSecret)
       THEN /\ hookStatus' = 401
            /\ hookParsed' = FALSE
            /\ hookHandled' = FALSE
            /\ hookPc' = "responded"
       ELSE /\ hookParsed' = TRUE
            /\ IF ~req.body.json
                  \/ req.body.notification_type = "" \/ req.body.timestamp = 0
               THEN /\ hookStatus' = 400
                    /\ hookHandled' = FALSE
                    /\ hookPc' = "responded"
               ELSE /\ hookStatus' = 0
                    /\ hookHandled' = TRUE
                    /\ hookPc' = "handling"
    /\ UNCHANGED webhookSecret
    /\ UNCHANGED nonWebhookVars

\* handleWebhookEvent resolves, or throws into the catch of POST.
HandleWebhookEventSettles(ok) ==
    /\ hookPc = "handling"
    /\ hookStatus' = IF ok THEN 200 ELSE 500
    /\ hookPc' = "responded"
    /\ UNCHANGED <<webhookSecret, hookReq, hookParsed, hookHandled>>
    /\ UNCHANGED nonWebhookVars

\* The route module with its secret from the environment, before a request.
WebhookLoaded(secret) ==
    /\ webhookSecret = secret
    /\ hookPc = "idle"
    /\ hookReq = NoWebhookRequest
    /\ hookParsed = FALSE
    /\ hookHandled = FALSE
    /\ hookStatus = 0

WebhookQuiet == WebhookLoaded("")

\* ------------------------------------------------- uploadBatch (lib/cloudinary)
\* The files of a call are told apart by their position in options.files.
BatchFilesOf(n) == [k \in 1..n |-> k]

\* The options of a call: files may be empty, userId and gameNumber may be
\* empty strings, and either callback may be left out.
BatchUploadOptions ==
    [files : {BatchFilesOf(n) : n \in 0..MaxBatchFiles},
     userId : {"", "u1"},
     gameNumber : {"", "g1"},
     onProgress : BOOLEAN,
     onFileComplete : BOOLEAN]

NoBatchOptions ==
    [files |-> <<>>, userId |-> "", gameNumber |-> "", onProgress |-> FALSE,
     onFileComplete |-> FALSE]

NoBatchResult ==
    [successful |-> <<>>, failed |-> <<>>, totalFiles |-> 0, successCount |-> 0,
     failureCount |-> 0]

\* What uploadFile resolves with for a file: it catches every error of its
\* own and never rejects.  file records which input the result was made for.
UploadResultOf(file, success) ==
    [success |-> success, error |-> IF success THEN "" ELSE "Upload failed", file |-> file]

\* The result the catch branch of the loop makes when a callback throws.
ErrorResultOf(file) == [success |-> FALSE, error |-> "File upload failed", file |-> file]

\* uploadBatch(options) up to its first await: the arrays are created and
\* the inputs validated; an invalid call throws, a valid one starts the
\* upload of files[0].
UploadBatch(options) ==
    /\ ubPc \in {"idle", "returned", "thrown"}
    /\ ubOptions' = options
    /\ ubIndex' = 0
    /\ ubSuccessful' = <<>>
    /\ ubFailed' = <<>>
    /\ ubResults' = <<>>
    /\ ubReturn' = NoBatchResult
    /\ ubPc' = IF \/ Len(options.files) = 0
                  \/ options.userId = ""
                  \/ options.gameNumber = ""
               THEN "thrown"
               ELSE "uploading"
    /\ UNCHANGED nonUploadBatchVars

\* uploadFile settles for files[i], and the loop body runs on from there:
\* the result is pushed, the callbacks are called (each may throw, which
\* takes the body to its catch branch), and after the last file the result
\* record is returned.  The 100 ms pause between files changes nothing.
UploadFileSettles(success, completeThrows, progressThrows) ==
    /\ ubPc = "uploading"
    /\ LET file == ubOptions.files[ubIndex + 1]
           result == UploadResultOf(file, success)
           successful1 == IF success THEN Append(ubSuccessful, result) ELSE ubSuccessful
           failed1 == IF success THEN ubFailed ELSE Append(ubFailed, result)
           thrownByComplete == success /\ ubOptions.onFileComplete /\ completeThrows
           thrownByProgress == ~thrownByComplete /\ ubOptions.onProgress /\ progressThrows
           results1 == IF thrownByComplete THEN ubResults ELSE Append(ubResults, result)
           caught == thrownByComplete \/ thrownByProgress
           failed2 == IF caught THEN Append(failed1, ErrorResultOf(file)) ELSE failed1
           results2 == IF caught THEN Append(results1, ErrorResultOf(file)) ELSE results1
       IN  /\ ubSuccessful' = successful1
           /\ ubFailed' = failed2
           /\ ubResults' = results2
           /\ ubIndex' = ubIndex + 1
           /\ IF ubIndex + 1 < Len(ubOptions.files)
              THEN /\ ubPc' = "uploading"
                   /\ ubReturn' = ubReturn
              ELSE /\ ubPc' = "returned"
                   /\ ubReturn' = [successful |-> successful1,
                                   failed |-> failed2,
                                   totalFiles |-> Len(ubOptions.files),
                                   successCount |-> Len(successful1),
                                   failureCount |-> Len(failed2)]
    /\ UNCHANGED ubOptions
    /\ UNCHANGED nonUploadBatchVars

\* No call of uploadBatch has been made.
UploadBatchQuiet ==
    /\ ubPc = "idle"
    /\ ubOptions = NoBatchOptions
    /\ ubIndex = 0
    /\ ubSuccessful = <<>>
    /\ ubFailed = <<>>
    /\ ubResults = <<>>
    /\ ubReturn = NoBatchResult

\* ------------------------------------------------------------ specifications
\* The module before its first checkRateLimit call.
UploadLimiterLoaded(env) ==
    /\ rlEnv = env
    /\ rateLimiter = "unset"
    /\ rlStore = <<>>
    /\ rlLog = <<>>

UploadLimiterQuiet == UploadLimiterLoaded([redis |-> FALSE, points |-> 1])

UploaderQuiet == UploaderMounted

ClientQuiet == UploaderQuiet /\ WebhookQuiet /\ UploadBatchQuiet

\* A route module right after rateLimit(config): an empty Map.
LimiterConstructed(limits) ==
    /\ limitOf = limits
    /\ tokens = <<>>
    /\ clock = 0
    /\ advances = 0
    /\ pending = [kind \in Purposes \X Forwardeds |-> 0]
    /\ checks = 0
    /\ checkLog = <<>>

LimiterQuiet == LimiterConstructed([purpose \in Purposes |-> 1]) /\ UploadLimiterQuiet

BatchQuiet ==
    /\ postPc = "idle"
    /\ request = NoRequest
    /\ i = 0
    /\ batch = <<>>
    /\ opState = <<>>
    /\ results = <<>>
    /\ response = NoResponse
    /\ remoteCalls = <<>>
    /\ batchLog = <<>>
    /\ waitLog = <<>>

\* The service right after new PhotoStorageService(config).
StorageConstructed(cfg) ==
    /\ config = cfg
    /\ cache = <<>>
    /\ now = 0
    /\ ticks = 0
    /\ calls = 0
    /\ writes = 0
    /\ svcPc = "idle"
    /\ call = NoCall
    /\ attempt = 0
    /\ invocations = 0
    /\ lastError = ""
    /\ outcomes = <<>>
    /\ backoffs = 0
    /\ lastDelay = 0
    /\ callResult = NoResult
    /\ stored = <<>>

DefaultConfig == CHOOSE cfg \in Configs : cfg.maxRetries = DefaultMaxRetries

BatchInit == BatchQuiet /\ StorageConstructed(DefaultConfig) /\ LimiterQuiet /\ ClientQuiet

\* The service as exported: new PhotoStorageService(defaultConfig).
StorageInit == BatchQuiet /\ StorageConstructed(DefaultConfig) /\ LimiterQuiet /\ ClientQuiet

StorageNext ==
    \/ svcPc \in {"idle", "returned", "thrown"} /\ \E a \in FetchArgs : FetchPhotosByFolder(a)
    \/ \E data \in Payloads : OperationResolves(data)
    \/ \E jitter \in Jitters : OperationRejects(jitter)
    \/ BackoffElapsed
    \/ \E d \in {CacheTTL, CacheTTL + 1} : Tick(d)

StorageSpec == StorageInit /\ [][StorageNext]_vars

\* Reads and writes on the default instance: cacheable fetches fill the cache,
\* updatePhotoMetadata / deletePhoto invalidate it.
InvalidationNext ==
    \/ svcPc \in {"idle", "returned", "thrown"}
          /\ \E a \in FetchArgs : a.useCache /\ FetchPhotosByFolder(a)
    \/ svcPc \in {"idle", "returned", "thrown"}
          /\ \E publicId \in WritePublicIds : UpdatePhotoMetadata(publicId)
    \/ svcPc \in {"idle", "returned", "thrown"}
          /\ \E publicId \in WritePublicIds : DeletePhoto(publicId)
    \/ \E data \in Payloads : OperationResolves(data)
    \/ UpdateResolves
    \/ DeleteResolves
    \/ \E jitter \in Jitters : OperationRejects(jitter)
    \/ BackoffElapsed

InvalidationSpec == StorageInit /\ [][InvalidationNext]_vars

\* withRetry on its own: custom instances with every maxRetries, and calls that
\* go past the cache (useCache: false).
RetryInit ==
    BatchQuiet /\ LimiterQuiet /\ ClientQuiet /\ \E cfg \in Configs : StorageConstructed(cfg)

RetryNext ==
    \/ svcPc \in {"idle", "returned", "thrown"}
          /\ \E a \in FetchArgs : ~a.useCache /\ FetchPhotosByFolder(a)
    \/ \E data \in Payloads : OperationResolves(data)
    \/ \E jitter \in Jitters : OperationRejects(jitter)
    \/ BackoffElapsed

RetrySpec == RetryInit /\ [][RetryNext]_vars

\* The limiter of a route: the limit of each purpose is fixed by the route's code.
LimiterInit ==
    /\ BatchQuiet
    /\ StorageConstructed(DefaultConfig)
    /\ \E limits \in [Purposes -> Limits] : LimiterConstructed(limits)
    /\ UploadLimiterQuiet
    /\ ClientQuiet

LimiterNext ==
    \/ \E purpose \in Purposes, forwarded \in Forwardeds : Arrive(purpose, forwarded)
    \/ \E purpose \in Purposes, forwarded \in Forwardeds : Check(purpose, forwarded)
    \/ \E d \in {1, Interval - 1} : AdvanceClock(d)

LimiterSpec == LimiterInit /\ [][LimiterNext]_vars

\* checkRateLimit under every environment.
UploadLimiterInit ==
    /\ BatchQuiet
    /\ StorageConstructed(DefaultConfig)
    /\ LimiterConstructed([purpose \in Purposes |-> 1])
    /\ \E env \in Envs : UploadLimiterLoaded(env)
    /\ ClientQuiet

UploadLimiterNext ==
    \/ \E identifier \in Identifiers, reachable \in BOOLEAN :
          CheckRateLimit(identifier, reachable)
    \/ \E d \in {1, WindowMs - 1} : AdvanceClock(d)

UploadLimiterSpec == UploadLimiterInit /\ [][UploadLimiterNext]_vars

\* The component under every order of drops, button presses, timers and
\* settling uploads.  A button is pressed only while it is on the page and
\* enabled.
UploaderInit ==
    /\ BatchQuiet
    /\ StorageConstructed(DefaultConfig)
    /\ LimiterQuiet
    /\ UploaderMounted
    /\ WebhookQuiet
    /\ UploadBatchQuiet

UploaderNext ==
    \/ \E files \in Drops : OnDrop(files)
    \/ StartEnabled /\ HandleStartUpload
    \/ \E id \in FileNames : RetryShown(id) /\ RetryUpload(id)
    \/ RetryTimerFires
    \/ \E r \in 1..MaxClicks, ok \in BOOLEAN : UploadSettles(r, ok)
    \/ \E id \in FileNames : IntervalTick(id)
    \/ \E fileId \in FileNames : RemoveFile(fileId)
    \/ HandleClearAll

UploaderSpec == UploaderInit /\ [][UploaderNext]_vars

\* The component as long as "Clear All" is not pressed.
UploaderNoClearNext ==
    \/ \E files \in Drops : OnDrop(files)
    \/ StartEnabled /\ HandleStartUpload
    \/ \E id \in FileNames : RetryShown(id) /\ RetryUpload(id)
    \/ RetryTimerFires
    \/ \E r \in 1..MaxClicks, ok \in BOOLEAN : UploadSettles(r, ok)
    \/ \E id \in FileNames : IntervalTick(id)
    \/ \E fileId \in FileNames : RemoveFile(fileId)

UploaderNoClearSpec == UploaderInit /\ [][UploaderNoClearNext]_vars

\* Runs started by the Upload button only: no retry, no removal, no clearing.
RunNext ==
    \/ \E files \in Drops : OnDrop(files)
    \/ StartEnabled /\ HandleStartUpload
    \/ \E r \in 1..MaxClicks, ok \in BOOLEAN : UploadSettles(r, ok)
    \/ \E id \in FileNames : IntervalTick(id)

RunSpec == UploaderInit /\ [][RunNext]_vars

\* Every remote upload call settles: fetch resolves or rejects.
RunFairness == WF_vars(\E r \in 1..MaxClicks, ok \in BOOLEAN : UploadSettles(r, ok))

RunFairSpec == RunSpec /\ RunFairness

\* Everything that changes the task list, short of retries.
IntakeNext ==
    \/ \E files \in Drops : OnDrop(files)
    \/ StartEnabled /\ HandleStartUpload
    \/ \E r \in 1..MaxClicks, ok \in BOOLEAN : UploadSettles(r, ok)
    \/ \E fileId \in FileNames : RemoveFile(fileId)
    \/ HandleClearAll

IntakeSpec == UploaderInit /\ [][IntakeNext]_vars

\* The webhook route with and without a configured secret.
WebhookInit ==
    /\ BatchQuiet
    /\ StorageConstructed(DefaultConfig)
    /\ LimiterQuiet
    /\ UploaderQuiet
    /\ UploadBatchQuiet
    /\ \E secret \in WebhookSecrets : WebhookLoaded(secret)

WebhookNext ==
    \/ \E req \in WebhookRequests : WebhookPost(req)
    \/ \E ok \in BOOLEAN : HandleWebhookEventSettles(ok)

WebhookSpec == WebhookInit /\ [][WebhookNext]_vars

\* uploadBatch called again and again, one call at a time, with callbacks
\* that may throw.
UploadBatchInit ==
    /\ BatchQuiet
    /\ StorageConstructed(DefaultConfig)
    /\ LimiterQuiet
    /\ ClientQuiet

UploadBatchNext ==
    \/ \E options \in BatchUploadOptions : UploadBatch(options)
    \/ \E success, completeThrows, progressThrows \in BOOLEAN :
          UploadFileSettles(success, completeThrows, progressThrows)

UploadBatchSpec == UploadBatchInit /\ [][UploadBatchNext]_vars

BatchNext ==
    \/ postPc = "idle" /\ \E r \in Requests : Receive(r)
    \/ StartBatch
    \/ \E k \in 1..MaxOps, o \in RemoteOutcomes : SettleRemote(k, o)
    \/ Collect
    \/ DelayElapsed
    \/ Respond

BatchSpec == BatchInit /\ [][BatchNext]_vars

\* The event loop runs every continuation that is ready, every timer fires and
\* every remote call settles; whether a request arrives is up to the client.
BatchFairness ==
    /\ WF_vars(StartBatch)
    /\ WF_vars(Collect)
    /\ WF_vars(DelayElapsed)
    /\ WF_vars(Respond)
    /\ \A k \in 1..MaxOps : WF_vars(\E o \in RemoteOutcomes : SettleRemote(k, o))

BatchFairSpec == BatchSpec /\ BatchFairness

\* ------------------------------------------------ claims on the batch updater
\* A body that passes validation, in the words of the claims: an array of
\* 1..100 operations, each with a publicId.
StructurallyValid(b) ==
    /\ b.operations.isArray
    /\ Len(b.operations.items) \in 1..100
    /\ \A k \in DOMAIN b.operations.items : b.operations.items[k] # ""

\* The request got past the rate limiter and its JSON parsed.
Parsed == postPc # "idle" /\ ~request.limited /\ request.parses

Accepted == Parsed /\ StructurallyValid(body)

Returned == postPc = "done"

Report == response.successful \o response.failed

\* C1: the report returned for a request that passes validation accounts for
\* every operation exactly once: successful.length + failed.length equals
\* operations.length, and each position of the request has exactly one entry,
\* carrying its publicId.
C1_ReportAccountsForEveryOperation ==
    (Accepted /\ Returned /\ response.status = 200) =>
        /\ Len(response.successful) + Len(response.failed) = Len(operations)
        /\ response.total = Len(operations)
        /\ \A k \in DOMAIN operations :
              /\ Cardinality({j \in DOMAIN Report : Report[j].idx = k}) = 1
              /\ \A j \in DOMAIN Report :
                    Report[j].idx = k => Report[j].publicId = operations[k]

\* C1 witness: a report over several sub-batches that mixes successes and failures.
C1_Witness ==
    /\ Accepted /\ Returned /\ response.status = 200
    /\ Len(batchLog) >= 2
    /\ Len(response.successful) >= 1
    /\ Len(response.failed) >= 2

C3_DryRunNeverCallsRemote ==
    (postPc # "idle" /\ dryRun) =>
        /\ remoteCalls = <<>>
        /\ \A k \in DOMAIN opState : opState[k] \in {"idle", "dry"}
        /\ (Accepted /\ Returned) =>
              /\ response.status = 200
              /\ response.failed = <<>>
              /\ Len(response.successful) = Len(operations)
              /\ \A k \in DOMAIN operations :
                    /\ response.successful[k].idx = k
                    /\ response.successful[k].detail = "dry_run"

\* C3 witness: a dry run over several sub-batches has returned.
C3_Witness ==
    /\ Accepted /\ Returned /\ dryRun
    /\ Len(operations) >= 3
    /\ Len(batchLog) >= 2

\* C4: an accepted request never gets a request-level error response, whatever
\* its operations' remote outcomes: what it gets is the 200 report.
C4_PartialFailureIsNormal ==
    Accepted =>
        /\ response.status \in {0, 200}
        /\ Returned =>
              /\ response.status = 200
              /\ response.error = ""
              /\ response.success = (response.failed = <<>>)

\* C4 witness: every operation of a request failed remotely and the report is returned.
C4_Witness ==
    /\ Accepted /\ Returned /\ ~dryRun
    /\ Len(operations) >= 2
    /\ response.status = 200
    /\ response.successful = <<>>
    /\ Len(response.failed) = Len(operations)
    /\ \E j \in DOMAIN response.failed : response.failed[j].detail = "Cloudinary update failed"

\* C5: for every accepted request and every value of the options, the handler
\* eventually leaves its sub-batch loop and returns (remote calls settle, timers
\* fire and ready continuations run: BatchFairness).
C5_HandlerReturns == Accepted ~> Returned

\* The k-th sub-batch of n operations split by size: positions (k-1)*size+1 .. min(k*size, n).
ExpectedBatch(n, size, k) ==
    [j \in 1..(Min(k * size, n) - (k - 1) * size) |-> (k - 1) * size + j]

\* C6: the operations are split into ceil(n / batchSize) consecutive sub-batches
\* in input order, each of batchSize operations except a shorter last one, and
\* the handler waits delayBetweenBatches after every sub-batch but the last.
\* At return the whole split is as stated; during a run with batchSize >= 1
\* what has been issued so far is a prefix of it.
C6_ConsecutiveSubBatches ==
    LET n == Len(operations)
        count == CeilDiv(n, batchSize)
        waits == IF delayBetweenBatches > 0 THEN count - 1 ELSE 0
    IN  /\ (Accepted /\ Returned) =>
              /\ Len(batchLog) = count
              /\ response.batchCount = count
              /\ \A k \in 1..count : batchLog[k] = ExpectedBatch(n, batchSize, k)
              /\ Len(waitLog) = waits
        /\ (Accepted /\ batchSize >= 1) =>
              /\ Len(batchLog) <= count
              /\ \A k \in DOMAIN batchLog : batchLog[k] = ExpectedBatch(n, batchSize, k)
              /\ \A w \in DOMAIN waitLog :
                    waitLog[w] = <<w, delayBetweenBatches>> /\ w < count
              /\ Len(waitLog) <= waits
              /\ (delayBetweenBatches > 0 /\ batchLog # <<>>) =>
                    Len(waitLog) \in {Len(batchLog) - 1, Len(batchLog)}
              /\ (postPc = "delay") => (Len(waitLog) = Len(batchLog))
              /\ (postPc = "await" /\ delayBetweenBatches > 0) =>
                    (Len(waitLog) = Len(batchLog) - 1)

\* C6 witness: a run that issued three sub-batches, the last one shorter, with two waits
\* (five operations with batchSize 2: 2, 2, 1).
C6_Witness ==
    /\ Accepted /\ Returned
    /\ Len(operations) >= 3
    /\ Len(batchLog) = 3
    /\ Len(batchLog[3]) < Len(batchLog[1])
    /\ Len(waitLog) = 2

Settled(k) == opState[k] \in {"ok", "error", "none", "dry"}

\* C7: a remote call is in flight only for an operation of the current sub-batch,
\* and by then every operation of every earlier sub-batch has settled; the
\* operations of a sub-batch go in flight in one step; and a call that settles,
\* with a failure or not, leaves its siblings in flight.
C7_NothingInFlightOutsideCurrentBatch ==
    /\ \A k \in DOMAIN opState :
          opState[k] = "inflight" => (postPc = "await" /\ k \in Range(batch))
    /\ \A m \in 1..(Len(batchLog) - 1) : \A k \in Range(batchLog[m]) : Settled(k)
    /\ (postPc # "await") => \A m \in DOMAIN batchLog : \A k \in Range(batchLog[m]) : Settled(k)

C7_IssuedTogether ==
    (batchLog' # batchLog /\ ~dryRun) =>
        /\ \A k \in Range(batch') : opState[k] = "idle" /\ opState'[k] = "inflight"
        /\ batch' = batchLog'[Len(batchLog')]

C7_SettleLeavesSiblings ==
    \A k \in DOMAIN opState :
        (opState[k] = "inflight" /\ opState'[k] # "inflight") =>
            /\ opState'[k] \in RemoteOutcomes
            /\ \A j \in DOMAIN opState \ {k} : opState'[j] = opState[j]
            /\ postPc' = "await"

C7_SubBatchesAreSequenced ==
    /\ []C7_NothingInFlightOutsideCurrentBatch
    /\ [][C7_IssuedTogether /\ C7_SettleLeavesSiblings]_vars

\* C7 witness: in a later sub-batch, a later operation has failed while an
\* earlier sibling is still in flight.
C7_Witness ==
    /\ Accepted /\ postPc = "await"
    /\ Len(batchLog) >= 2
    /\ \E k1, k2 \in Range(batch) :
          k1 < k2 /\ opState[k1] = "inflight" /\ opState[k2] = "error"

\* ----------------------------------------------- claims on the storage service
Failures == Cardinality({j \in DOMAIN outcomes : ~outcomes[j].ok})

\* C8: an operation that fails k <= maxRetries times and then succeeds makes
\* withRetry return the success value after exactly k+1 invocations: it is never
\* invoked again after its first success, and withRetry does not give up while
\* no more than maxRetries failures have happened.
C8_RetryReturnsFirstSuccess ==
    /\ \A j \in DOMAIN outcomes :
          outcomes[j].ok =>
              /\ j = Len(outcomes)
              /\ svcPc = "returned"
              /\ invocations = j
    /\ (svcPc = "returned" /\ ~call.hit) =>
          /\ outcomes # <<>>
          /\ outcomes[Len(outcomes)].ok
          /\ Failures = Len(outcomes) - 1
          /\ Failures <= config.maxRetries
          /\ invocations = Failures + 1
          /\ callResult.status = "value"
          /\ callResult.data = outcomes[Len(outcomes)].v
    /\ (svcPc = "thrown") => (Failures > config.maxRetries)

\* C8 witness: two failures, then a success on the third invocation.
C8_Witness ==
    /\ svcPc = "returned"
    /\ Len(outcomes) = 3
    /\ ~outcomes[1].ok /\ ~outcomes[2].ok /\ outcomes[3].ok
    /\ invocations = 3
    /\ callResult.data = outcomes[3].v

\* C9: an operation that fails on every attempt is invoked exactly maxRetries+1
\* times; then the error of the last attempt is thrown; a backoff timer is
\* started after every failure but that last one, with a delay of
\* retryDelay * 2^attempt plus a jitter below 1000 ms.
C9_RetryThrowsLastError ==
    /\ (svcPc = "thrown") =>
          /\ invocations = config.maxRetries + 1
          /\ Len(outcomes) = config.maxRetries + 1
          /\ \A j \in DOMAIN outcomes : ~outcomes[j].ok
          /\ callResult.status = "error"
          /\ callResult.data = outcomes[Len(outcomes)].v
          /\ \A j \in 1..(Len(outcomes) - 1) : callResult.data # outcomes[j].v
          /\ backoffs = config.maxRetries
    /\ (svcPc = "backoff") =>
          /\ backoffs = Failures
          /\ Failures <= config.maxRetries
          /\ lastDelay >= config.retryDelay * Pow2(attempt)
          /\ lastDelay < config.retryDelay * Pow2(attempt) + JitterMax
    /\ (svcPc \in {"attempt", "returned"}) => (backoffs = Failures)

\* C9 witness: with the default maxRetries of 3 the fourth failure has been thrown.
C9_Witness ==
    /\ svcPc = "thrown"
    /\ config.maxRetries = 3
    /\ invocations = 4
    /\ backoffs = 3
    /\ callResult.data = "E4"

\* The orders in which the properties of an n-property object can be inserted.
InsertionOrders(n) == {f \in [1..n -> 1..n] : \A x, y \in 1..n : f[x] = f[y] => x = y}

Reordered(params, f) == [j \in DOMAIN params |-> params[f[j]]]

\* For each of the key-deciding arguments, the keys getCacheKey gives for its
\* params object under every insertion order of the four properties.
ReorderedKeys ==
    [ka \in FetchKeyArgs |->
        {GetCacheKey("fetchPhotos", Reordered(FetchParams(ka[1], ka[2], ka[3], ka[4]), f)) :
            f \in InsertionOrders(4)}]

\* Whether a cacheable call was preceded by a call with the same arguments whose
\* stored result had not outlived its TTL when this call started.
FreshPrior ==
    /\ call.kind = "fetch"
    /\ call.useCache /\ ~call.forceRefresh
    /\ call.prior # <<>>
    /\ call.startedAt - call.prior[1].at <= config.cacheTTL

\* C10: getCacheKey does not depend on the insertion order of the parameters:
\* every reordering of a call's parameters has the key the call computed; so a
\* cacheable fetchPhotosByFolder call that follows one with the same arguments
\* (within the TTL) reads the entry that one stored and invokes nothing.
C10_CacheKeyOrderIndependent ==
    /\ (call.kind = "fetch") => (ReorderedKeys[KeyArgs(call)] = {call.cacheKey})
    /\ FreshPrior =>
          /\ call.hit
          /\ svcPc = "returned"
          /\ invocations = 0
          /\ callResult = [status |-> "value", data |-> call.prior[1].data,
                           fromCache |-> TRUE]

\* C10 witness: the second call with the same arguments was answered from the
\* entry the first one stored.
C10_Witness ==
    /\ calls = 2
    /\ FreshPrior
    /\ call.hit
    /\ callResult.fromCache
    /\ call.cacheKey \in DOMAIN cache

\* Whether a cacheable call found, for its arguments, a stored result that had
\* outlived its TTL when the call started.
StalePrior ==
    /\ call.kind = "fetch"
    /\ call.useCache /\ ~call.forceRefresh
    /\ call.prior # <<>>
    /\ call.startedAt - call.prior[1].at > config.cacheTTL

\* C11: a cacheable fetchPhotosByFolder call that finds a stored entry no older
\* than its TTL returns that entry's payload and invokes nothing; one that finds
\* the entry older than its TTL misses, deletes it, invokes the remote fetch, and
\* on success stores the fetched payload under the key with a new timestamp.
C11_CacheHonoursTTL ==
    /\ FreshPrior =>
          /\ call.hit
          /\ svcPc = "returned"
          /\ invocations = 0
          /\ outcomes = <<>>
          /\ callResult.status = "value"
          /\ callResult.data = call.prior[1].data
          /\ call.cacheKey \in DOMAIN cache
          /\ cache[call.cacheKey].timestamp = call.prior[1].at
          /\ cache[call.cacheKey].data = call.prior[1].data
    /\ StalePrior =>
          /\ ~call.hit
          /\ invocations >= 1
          /\ (svcPc # "returned") => (call.cacheKey \notin DOMAIN cache)
          /\ (svcPc = "returned") =>
                /\ ~callResult.fromCache
                /\ outcomes[Len(outcomes)].ok
                /\ call.cacheKey \in DOMAIN cache
                /\ cache[call.cacheKey].data = callResult.data
                /\ cache[call.cacheKey].data = outcomes[Len(outcomes)].v
                /\ cache[call.cacheKey].timestamp >= call.startedAt
                /\ cache[call.cacheKey].timestamp > call.prior[1].at + config.cacheTTL
                /\ cache[call.cacheKey].timestamp <= now

\* C11 witness: a call one millisecond past the TTL missed, fetched a different
\* payload and stored it with the later timestamp.
C11_Witness ==
    /\ StalePrior
    /\ svcPc = "returned"
    /\ call.startedAt - call.prior[1].at = config.cacheTTL + 1
    /\ callResult.data # call.prior[1].data
    /\ cache[call.cacheKey].timestamp = call.startedAt

\* C11 second witness state: a call made exactly at the TTL was still a hit.
C11_HitAtTTL ==
    /\ FreshPrior
    /\ call.hit
    /\ call.startedAt - call.prior[1].at = config.cacheTTL

WriteKinds == {"update", "delete"}

KeysContaining(c, pattern) == {k \in DOMAIN c : Includes(k, pattern)}

\* A write call is between its start and its return or throw.
WriteInProgress == call.kind \in WriteKinds /\ svcPc \in {"attempt", "backoff"}

\* C12, the states: once updatePhotoMetadata / deletePhoto for publicId P has
\* returned, no cache key contains P; one that threw did so after maxRetries+1
\* failed invocations and removed nothing.
C12_AfterWrite ==
    /\ (call.kind \in WriteKinds /\ svcPc = "returned") =>
          /\ callResult = [status |-> "value", data |-> "true", fromCache |-> FALSE]
          /\ KeysContaining(cache, call.publicId) = {}
    /\ (call.kind \in WriteKinds /\ svcPc = "thrown") =>
          /\ invocations = config.maxRetries + 1
          /\ \A j \in DOMAIN outcomes : ~outcomes[j].ok
          /\ call.cleared = {}

\* C12, the steps: the step in which a write returns removes exactly the entries
\* whose key contains P and leaves every other entry as it was; every other
\* step of a write, the one that throws included, leaves the cache as it was.
C12_WriteStep ==
    WriteInProgress =>
        IF svcPc' = "returned"
        THEN /\ DOMAIN cache' = DOMAIN cache \ KeysContaining(cache, call.publicId)
             /\ \A k \in DOMAIN cache' : cache'[k] = cache[k]
             /\ callResult'.status = "value"
        ELSE cache' = cache

\* C12: a successful write for publicId P removes, before it returns, every cache
\* entry whose key contains P and no other; a write that fails after its
\* retries removes none.
C12_WriteInvalidatesBySubstring == []C12_AfterWrite /\ [][C12_WriteStep]_vars

\* C12 witness: a write returned after removing an entry whose key contains its
\* publicId, and an entry of another key is still cached.
C12_Witness ==
    /\ call.kind \in WriteKinds /\ svcPc = "returned"
    /\ call.publicId # ""
    /\ call.cleared # {}
    /\ cache # <<>>

\* C12 second witness state: a write threw while entries were cached.
C12_FailedWrite ==
    /\ call.kind \in WriteKinds /\ svcPc = "thrown"
    /\ Cardinality(DOMAIN cache) = 2

\* ------------------------------------------------ claims on the rate limiters
LimiterKeys == DOMAIN checkLog

LimitOfKey(key) == limitOf[checkLog[key][1].purpose]

\* The earlier checks of the key that fall in the window ending at its j-th check.
InWindow(key, j) ==
    {c \in 1..(j - 1) : checkLog[key][c].at > checkLog[key][j].at - Interval}

AdmittedInWindow(key, j) == {c \in InWindow(key, j) : checkLog[key][c].admitted}

\* C13: for every key, a check is admitted exactly when fewer than `limit`
\* admitted checks of the key lie in the window of length interval that ends
\* with it: the first `limit` checks in a window succeed, the next is rejected,
\* no window holds more than `limit` admitted checks; and the stored array of a
\* key never holds more than `limit` timestamps.
C13_SlidingWindowAdmitsLimit ==
    \A key \in LimiterKeys :
        /\ Len(TokensOf(key)) <= LimitOfKey(key)
        /\ \A j \in DOMAIN checkLog[key] :
              /\ (Cardinality(InWindow(key, j)) < LimitOfKey(key)) => checkLog[key][j].admitted
              /\ checkLog[key][j].admitted <=>
                    (Cardinality(AdmittedInWindow(key, j)) < LimitOfKey(key))
              /\ Cardinality(AdmittedInWindow(key, j)) <= LimitOfKey(key)

\* C13 witness: with limit 2, two checks were admitted and a third, made one
\* millisecond before the window of the first ended, was rejected.
C13_Witness ==
    \E key \in LimiterKeys :
        /\ LimitOfKey(key) = 2
        /\ Len(checkLog[key]) = 3
        /\ checkLog[key][1].admitted /\ checkLog[key][2].admitted
        /\ ~checkLog[key][3].admitted
        /\ checkLog[key][3].at - checkLog[key][1].at = Interval - 1
        /\ Len(tokens[key]) = 2

\* C14: a check made when every admitted check of the key lies at least one
\* interval back is admitted, whatever rejected checks came in between; the
\* stored timestamps of a key are those of admitted checks only.
C14_AdmittedAgainAfterWindow ==
    \A key \in LimiterKeys :
        /\ \A j \in DOMAIN checkLog[key] :
              (\A c \in 1..(j - 1) :
                    checkLog[key][c].admitted =>
                        checkLog[key][j].at - checkLog[key][c].at >= Interval)
                 => checkLog[key][j].admitted
        /\ Range(TokensOf(key)) \subseteq
              {checkLog[key][c].at : c \in {c \in DOMAIN checkLog[key] : checkLog[key][c].admitted}}

\* C14 witness: admitted, then rejected later, then admitted exactly one
\* interval after the first although the rejected check is less than one
\* interval back.
C14_Witness ==
    \E key \in LimiterKeys :
        /\ Len(checkLog[key]) = 3
        /\ checkLog[key][1].admitted
        /\ ~checkLog[key][2].admitted
        /\ checkLog[key][2].at > checkLog[key][1].at
        /\ checkLog[key][3].admitted
        /\ checkLog[key][3].at - checkLog[key][1].at = Interval
        /\ checkLog[key][3].at - checkLog[key][2].at < Interval

\* C17: when a check finds one free slot for its key while another request for
\* the same key is waiting, later checks of the key at that same instant are not
\* admitted too.
C17_OneSlotAdmitsOne ==
    \A key \in LimiterKeys :
        \A j, c \in DOMAIN checkLog[key] :
            (/\ j < c
             /\ checkLog[key][j].slots = 1
             /\ checkLog[key][j].others >= 1
             /\ checkLog[key][c].at = checkLog[key][j].at)
            => ~(checkLog[key][j].admitted /\ checkLog[key][c].admitted)

\* C17 witness: with one of two slots left, two requests for the key were
\* waiting together; the first to run was admitted, the other rejected at the
\* same instant.
C17_Witness ==
    \E key \in LimiterKeys :
        /\ LimitOfKey(key) = 2
        /\ Len(checkLog[key]) = 3
        /\ checkLog[key][2].slots = 1
        /\ checkLog[key][2].others = 1
        /\ checkLog[key][2].admitted
        /\ checkLog[key][3].at = checkLog[key][2].at
        /\ ~checkLog[key][3].admitted

\* C15: once an identifier has been rejected by checkRateLimit, its first request
\* made when the window in which it was rejected has run its configured length
\* (UPLOAD_RATE_LIMIT_WINDOW_MS since that window began) is allowed.
C15_AllowedAfterWindow ==
    \A identifier \in DOMAIN rlLog :
        \A c, j \in DOMAIN rlLog[identifier] :
            (/\ c < j
             /\ ~rlLog[identifier][c].allowed
             /\ ~rlLog[identifier][c].unreachable
             /\ ~rlLog[identifier][j].unreachable
             /\ rlLog[identifier][j].at >= rlLog[identifier][c].began + WindowMs
             /\ \A k \in (c + 1)..(j - 1) :
                   rlLog[identifier][k].at < rlLog[identifier][c].began + WindowMs)
            => rlLog[identifier][j].allowed

\* The checkRateLimit half of C16 on its own: a result with allowed = false has
\* a retryAfter above zero.
CheckRateLimitGivesRetryAfter ==
    \A identifier \in DOMAIN rlLog :
        \A j \in DOMAIN rlLog[identifier] :
            ~rlLog[identifier][j].allowed =>
                /\ rlLog[identifier][j].retryAfter # <<>>
                /\ rlLog[identifier][j].retryAfter[1] > 0

\* C16: every rate-limit rejection carries a positive retry-after in seconds:
\* the result of checkRateLimit with allowed = false, and the 429 response of a
\* route whose limiter.check threw.
C16_RejectionCarriesRetryAfter ==
    /\ CheckRateLimitGivesRetryAfter
    /\ \A key \in LimiterKeys :
          \A j \in DOMAIN checkLog[key] :
              checkLog[key][j].status = 429 =>
                  /\ checkLog[key][j].retryAfter # <<>>
                  /\ checkLog[key][j].retryAfter[1] > 0

\* C18: a checkRateLimit call that finds the store unreachable returns
\* allowed = false, whatever the identifier's counter and earlier results.
C18_FailsClosed ==
    \A identifier \in DOMAIN rlLog :
        \A j \in DOMAIN rlLog[identifier] :
            rlLog[identifier][j].unreachable =>
                /\ ~rlLog[identifier][j].allowed
                /\ rlLog[identifier][j].retryAfter = <<DefaultRetryAfter>>

\* C18 witness: with the Redis store, an identifier that was allowed and still
\* has points left is refused while the store is unreachable, and allowed again
\* afterwards.
C18_Witness ==
    /\ rateLimiter = "redis"
    /\ rlEnv.points = 2
    /\ \E identifier \in DOMAIN rlLog :
          /\ Len(rlLog[identifier]) = 3
          /\ rlLog[identifier][1].allowed
          /\ rlLog[identifier][2].unreachable /\ ~rlLog[identifier][2].allowed
          /\ rlLog[identifier][3].allowed

\* ------------------------------------------- claims on the upload component
StatusOf(files, id) == TaskOf(files, id).status

\* The status changes the upload workflow allows.
AllowedTransitions ==
    {<<"pending", "uploading">>, <<"uploading", "completed">>,
     <<"uploading", "error">>, <<"error", "pending">>}

\* The task a run is uploading right now.
Uploading(run) == run.pendingFiles[run.i]

InFlight == {Uploading(runs[r]) : r \in 1..Len(runs)}

\* C19: in every step, a task that is in the list before and after the step
\* either keeps its status or changes it along pending -> uploading,
\* uploading -> completed, uploading -> error or error -> pending; so no
\* task goes from error straight to uploading and completed is terminal.
C19_StatusTransitions ==
    [][\A id \in TaskIds(uploadFiles) \cap TaskIds(uploadFiles') :
          \/ StatusOf(uploadFiles', id) = StatusOf(uploadFiles, id)
          \/ <<StatusOf(uploadFiles, id), StatusOf(uploadFiles', id)>>
                 \in AllowedTransitions]_vars

\* C20: a task whose retryCount has reached MAX_RETRIES is in status error,
\* no remote upload of it is in flight, and its retryCount is not above
\* MAX_RETRIES.
C20_NoUploadPastMaxRetries ==
    \A k \in 1..Len(uploadFiles) :
        uploadFiles[k].retryCount >= MAX_RETRIES =>
            /\ uploadFiles[k].status = "error"
            /\ uploadFiles[k].id \notin InFlight
            /\ uploadFiles[k].retryCount = MAX_RETRIES

\* C21: no task is put back to pending by retryUpload more than MAX_RETRIES
\* times; and a task in error whose failed attempts are its first upload and
\* one upload per retry, and which has been retried fewer than MAX_RETRIES
\* times, can be retried once more: its Retry button is on the page and
\* retryUpload does not refuse it.
C21_ThreeManualRetries ==
    \A k \in 1..Len(uploadFiles) :
        /\ retries[uploadFiles[k].id] <= MAX_RETRIES
        /\ (/\ uploadFiles[k].status = "error"
            /\ uploadFiles[k].retryCount = retries[uploadFiles[k].id] + 1
            /\ retries[uploadFiles[k].id] < MAX_RETRIES)
               => RetryShown(uploadFiles[k].id)

UploadingIds == {uploadFiles[k].id : k \in {n \in 1..Len(uploadFiles) :
                                               uploadFiles[n].status = "uploading"}}

\* C22: at most one task is in status uploading and at most one remote
\* upload call is in flight.
C22_OneUploadAtATime ==
    /\ Cardinality(UploadingIds) <= 1
    /\ Len(runs) <= 1

\* The tasks of a run that have been dealt with: each is completed or in
\* error with its message, and the task the run is at is uploading.
RunInOrder(run) ==
    /\ \A j \in 1..(run.i - 1) :
          LET f == TaskOf(uploadFiles, run.pendingFiles[j])
          IN  \/ f.status = "completed"
              \/ f.status = "error" /\ f.error # ""
    /\ StatusOf(uploadFiles, Uploading(run)) = "uploading"

\* The step in which the upload of the run settles: the task becomes
\* completed and its photo is added, or it goes to error with a message; and
\* in both cases the run goes on to its next task, if it has one.
RunStep(run) ==
    LET f == TaskOf(uploadFiles', Uploading(run))
    IN  /\ \/ /\ f.status = "completed"
              /\ uploadedPhotos' = Append(uploadedPhotos, PhotoOf(f.id))
           \/ /\ f.status = "error"
              /\ f.error # ""
              /\ uploadedPhotos' = uploadedPhotos
        /\ IF run.i < Len(run.pendingFiles)
           THEN /\ Len(runs') = 1
                /\ runs'[1].pendingFiles = run.pendingFiles
                /\ runs'[1].i = run.i + 1
                /\ StatusOf(uploadFiles', run.pendingFiles[run.i + 1]) = "uploading"
           ELSE runs' = <<>>

\* C23: a run deals with its tasks in order; a task whose remote call fails
\* goes to error and keeps its error message, a task whose call succeeds is
\* completed, and after either the run goes on to the next task; every run
\* comes to its end.
C23_FailureDoesNotAbortRun ==
    /\ [](\A r \in 1..Len(runs) : RunInOrder(runs[r]))
    /\ [][(runs # <<>> /\ runs' # runs) => RunStep(runs[1])]_vars
    /\ (runs # <<>>) ~> (runs = <<>>)

\* A finished run in which the first task failed and the second was then
\* uploaded with success.
C23_Witness ==
    /\ runs = <<>>
    /\ invoked = 1
    /\ Len(uploadFiles) = 2
    /\ uploadFiles[1].status = "error" /\ uploadFiles[1].error # ""
    /\ uploadFiles[2].status = "completed"
    /\ uploadedPhotos = <<PhotoOf(uploadFiles[2].id)>>

\* A file that intake has to turn away, in the words of the claims.
TooLarge(file) == file.size > MAX_FILE_SIZE

NotAnImage(file) == file.type \notin ImageTypes

\* The error state names the file and gives a reason that applies to it.
Reported(err, name, file) ==
    /\ err.kind = "rejected"
    /\ \E m \in 1..Len(err.messages) :
          /\ err.messages[m].name = name
          /\ \/ TooLarge(file) /\ err.messages[m].reason = "is too large (max 10MB)"
             \/ NotAnImage(file) /\ err.messages[m].reason = "is not a valid image file"

IsTheDigest(signature, payload, secret) ==
    [n \in 1..Len(signature) |-> LowerCase(signature[n])] = Sha256Hex(payload, secret)

Turned401 == hookStatus = 401 /\ ~hookParsed /\ ~hookHandled

\* C25: with a secret configured, a request whose signature is not the
\* digest of its raw body and the secret (a missing one and one of another
\* length included) gets 401, and neither JSON.parse nor handleWebhookEvent
\* is run for it.
C25_UnverifiedRequestRejected ==
    (/\ webhookSecret # ""
     /\ hookPc # "idle"
     /\ ~IsTheDigest(SignatureOf(hookReq), hookReq.body, webhookSecret))
        => Turned401

\* With a secret configured, a request is let through only if the bytes its
\* signature decodes to are the bytes of the digest.
DecodedSignatureIsChecked ==
    (/\ webhookSecret # ""
     /\ hookPc # "idle"
     /\ BufferFromHex(SignatureOf(hookReq))
            # BufferFromHex(Sha256Hex(hookReq.body, webhookSecret)))
        => Turned401

\* ------------------------------------- claims on reads after writes
\* The asset is in the upload folder of (userId, gameNumber): its public id
\* starts with photos/<userId>/<gameNumber>/.
InFolder(publicId, userId, gameNumber) ==
    LET folder == "photos/" \o userId \o "/" \o gameNumber \o "/"
    IN  /\ Len(publicId) > Len(folder)
        /\ SubSeq(publicId, 1, Len(folder)) = folder

\* C26: when updatePhotoMetadata or deletePhoto has returned for an asset of
\* a folder, the cache holds no list of that folder, so the next cached
\* fetchPhotosByFolder of the folder goes to the remote list.
C26_WriteInvalidatesFolder ==
    (call.kind \in WriteKinds /\ svcPc = "returned") =>
        \A ka \in FetchKeyArgs :
            InFolder(call.publicId, ka[1], ka[2]) => CacheKeyOf[ka] \notin DOMAIN cache

\* The records the uploaded-photos collection holds for the file.
RecordsOf(id) ==
    Cardinality({n \in 1..Len(uploadedPhotos) : uploadedPhotos[n] = PhotoOf(id)})

\* C27: the uploaded-photos collection holds exactly one record for each
\* task that is completed and none for any other file.
C27_OneRecordPerCompletedTask ==
    \A id \in FileNames :
        RecordsOf(id) = IF id \in TaskIds(uploadFiles)
                           /\ StatusOf(uploadFiles, id) = "completed"
                        THEN 1 ELSE 0

\* No file has two records.
NoFileRecordedTwice == \A id \in FileNames : RecordsOf(id) <= 1

\* navigateToEditPage of the upload page: the photos it puts in the address
\* of the edit page are the ones it reads from the session store.
NavigateToEditPage ==
    IF sessionStore.present /\ Len(sessionStore.photos) > 0
    THEN sessionStore.photos
    ELSE <<>>

\* C28: every step that changes the uploaded-photos collection, clear-all
\* included, leaves the session store item equal to the new collection.
C28_StoreFollowsUploadedPhotos ==
    [][uploadedPhotos' # uploadedPhotos =>
          sessionStore' = [present |-> TRUE, photos |-> uploadedPhotos']]_vars

\* The page hands on exactly the photos of the collection.
NavigationHandsOnTheCollection == NavigateToEditPage = uploadedPhotos

\* The task of the file is in the list and in status uploading.
IsUploadingTask(id) ==
    id \in TaskIds(uploadFiles) /\ StatusOf(uploadFiles, id) = "uploading"

\* C29: a progress interval is set only for a task that is in status
\* uploading, and no task has more than one interval set: the interval of an
\* attempt is cleared when the attempt settles, whether it failed or not.
C29_IntervalClearedWhenAttemptSettles ==
    \A id \in FileNames :
        /\ intervals[id] > 0 => IsUploadingTask(id)
        /\ intervals[id] <= 1

\* No task is driven by two intervals.
AtMostOneIntervalPerTask == \A id \in FileNames : intervals[id] <= 1

\* The entries the two lists of the returned result hold for the file.
EntriesFor(file) ==
    Cardinality({n \in 1..Len(ubReturn.successful) : ubReturn.successful[n].file = file})
    + Cardinality({n \in 1..Len(ubReturn.failed) : ubReturn.failed[n].file = file})

\* C30: when uploadBatch has returned, every input file has exactly one
\* entry in successful and failed together, and successCount + failureCount
\* = totalFiles = files.length, also when a callback has thrown.
C30_EveryFileInExactlyOneList ==
    ubPc = "returned" =>
        /\ \A file \in 1..Len(ubOptions.files) : EntriesFor(file) = 1
        /\ ubReturn.successCount + ubReturn.failureCount = ubReturn.totalFiles
        /\ ubReturn.totalFiles = Len(ubOptions.files)

\* The counts add up whenever no callback was passed.
CountsAddUpWithoutCallbacks ==
    (ubPc = "returned" /\ ~ubOptions.onProgress /\ ~ubOptions.onFileComplete) =>
        ubReturn.successCount + ubReturn.failureCount = ubReturn.totalFiles
====
